---- MODULE Spec2Model ----
(***************************************************************************)
(* OCPP central system of ev-server: the handlers of OCPPService.ts        *)
(* (StartTransaction, MeterValues, StopTransaction, StatusNotification)    *)
(* over one tenant and one charging station, with the transaction,         *)
(* consumption and connector collections they read and write.              *)
(* Timestamps are whole seconds, meter registers are whole Wh.             *)
(***************************************************************************)
EXTENDS Integers, Sequences, FiniteSets, TLC

\* ---------------------------------------------------------------- bounds
MaxTime == 2
MaxMeter == 1
MaxTx == 2
MaxBatch == 1
MaxConnector == 1
MaxMeterValues == 1

Times == 0..MaxTime
Meters == 0..MaxMeter
ConnectorIds == 1..MaxConnector
Contexts == {"Sample.Periodic", "Sample.Clock"}

\* ------------------------------------------------------------ small helpers
Max(a, b) == IF a >= b THEN a ELSE b

\* Sequences over S of length 1..n
SeqsUpTo(S, n) == UNION {[1..k -> S] : k \in 1..n}

\* ------------------------------------------------------------- data model
\* transaction.stop before the stop block is written
NoStop ==
  [set |-> FALSE, timestamp |-> 0, meterStop |-> 0,
   totalConsumptionWh |-> 0, totalInactivitySecs |-> 0, totalDurationSecs |-> 0,
   inactivityStatus |-> "Info",
   extraInactivitySecs |-> 0, extraInactivityComputed |-> FALSE, tagID |-> ""]

\* ------------------------------------------------------------------- tags
\* an idTag as the station sends it: a JSON string, a JSON number or null
NullTag == [type |-> "null", text |-> "", number |-> 0]
StringTag(text) == [type |-> "string", text |-> text, number |-> 0]
IntegerTag(number) == [type |-> "integer", text |-> "", number |-> number]

\* the OCPP limit of an idTag, in characters
MaxTagLength == 20

ValidTag == "ABCDEFGHIJKLMNOPQRST"
InvalidTag == "ABCDEFGHIJKLMNOPQRSTU"
NumberTag == 123
RoamingTag == "ROAMING"
RoamingTagNoAuthorization == "ROAMING-NOID"
UnknownTag == "UNKNOWN"

\* the tag as text: a number is written in decimal
tagText(idTag) == IF idTag.type = "integer" THEN ToString(idTag.number) ELSE idTag.text

isTagIDValid(idTag) ==
  /\ idTag.type # "null"
  /\ Len(tagText(idTag)) > 0
  /\ Len(tagText(idTag)) <= MaxTagLength

\* the active tags and their users; the 21-character tag is registered too
NoUser == [found |-> FALSE, issuer |-> FALSE, authorizationID |-> ""]
getUserByTagId(text) ==
  IF text \in {ValidTag, InvalidTag, ToString(NumberTag)}
  THEN [found |-> TRUE, issuer |-> TRUE, authorizationID |-> ""]
  ELSE IF text = RoamingTag
  THEN [found |-> TRUE, issuer |-> FALSE, authorizationID |-> "AUTH-1"]
  ELSE IF text = RoamingTagNoAuthorization
  THEN [found |-> TRUE, issuer |-> FALSE, authorizationID |-> ""]
  ELSE NoUser

\* connector.currentTagID / currentTransactionDate when no transaction is ongoing
NoTag == ""
NoDate == 0 - 1

\* Connector pushed by updateConnectorStatus when the id is unknown
\* a property that an object does not have
Undefined == "undefined"

NewConnector(connectorId) ==
  [connectorId |-> connectorId, status |-> "Unavailable",
   errorCode |-> Undefined, info |-> Undefined,
   currentTransactionID |-> 0, currentTotalConsumptionWh |-> 0,
   currentTagID |-> NoTag, currentTransactionDate |-> NoDate]

\* Inactivity thresholds of the station configuration (seconds)
InactivityWarningSecs == 1
InactivityErrorSecs == 2

getInactivityStatusLevel(secs) ==
  IF secs < InactivityWarningSecs THEN "Info"
  ELSE IF secs < InactivityErrorSecs THEN "Warning" ELSE "Error"

\* ------------------------------------------------------------------ state
VARIABLES
  transactions,       \* TransactionStorage: id -> transaction
  consumptions,       \* ConsumptionStorage: transaction id -> saved rows, in order
  connectors,         \* chargingStation.connectors as saved
  lastTransactionID,  \* highest transaction id handed out
  cdrPushes,          \* roaming platform: transaction id -> CDRs received
  handlers,           \* handlers running concurrently: position and local objects
  locks,              \* LockingManager: names of the locks held
  lastSeen,           \* chargingStation.lastSeen as saved
  now,                \* the server clock read by new Date()
  chargingStation,    \* ChargingStationStorage: the station's registration record
  bootNotifications,  \* OCPPStorage: the boot records saved
  notifications,      \* NotificationHandler: the notifications sent to the user
  chargingStationConfig,  \* Configuration.getChargingStationConfig()
  users,              \* UserStorage: the user accounts of the REST services
  migrations,         \* MigrationStorage: the (name, version) of the tasks recorded
  executions          \* the database migrations that have run, in order

\* what only handleBootNotification and the notifications write
stationVars == <<chargingStation, bootNotifications, notifications, chargingStationConfig>>

\* what the OCPP handlers never touch
restVars == <<users, migrations, executions>>

vars == <<transactions, consumptions, connectors, lastTransactionID, cdrPushes,
          handlers, locks, lastSeen, now, stationVars, restVars>>

\* The persistent collections as one value, so handlers are functions on it
Db == [transactions |-> transactions, consumptions |-> consumptions,
       connectors |-> connectors, lastTransactionID |-> lastTransactionID,
       cdrPushes |-> cdrPushes, lastSeen |-> lastSeen, now |-> now,
       chargingStation |-> chargingStation, bootNotifications |-> bootNotifications,
       notifications |-> notifications, chargingStationConfig |-> chargingStationConfig]

\* no station is stored under the chargeBoxIdentity
NoChargingStation ==
  [id |-> "", chargePointVendor |-> "", chargePointModel |-> "",
   chargePointSerialNumber |-> "", firmwareVersion |-> "", lastReboot |-> NoDate,
   registrationStatus |-> "none", issuer |-> FALSE, deleted |-> FALSE]

\* the station of the test context, registered by an earlier BootNotification
RegisteredChargingStation ==
  [id |-> "CS-1", chargePointVendor |-> "Schneider", chargePointModel |-> "EVlink",
   chargePointSerialNumber |-> "SN-1", firmwareVersion |-> "1.0", lastReboot |-> 0,
   registrationStatus |-> "Accepted", issuer |-> TRUE, deleted |-> FALSE]

\* notifBeforeEndOfChargePercent of the station configuration
OptimalChargePercent == 85

\* the notifications of the end of charge, both switched off
NoNotificationConfig ==
  [notifEndOfChargeEnabled |-> FALSE, notifBeforeEndOfChargeEnabled |-> FALSE,
   notifBeforeEndOfChargePercent |-> OptimalChargePercent]

EmptyDb == [transactions |-> <<>>, consumptions |-> <<>>, connectors |-> <<>>,
            lastTransactionID |-> 0, cdrPushes |-> <<>>, lastSeen |-> 0, now |-> 0,
            chargingStation |-> RegisteredChargingStation, bootNotifications |-> <<>>,
            notifications |-> <<>>, chargingStationConfig |-> NoNotificationConfig]

\* the two handler instances of the concurrent specifications
Handlers == {1, 2}

NoRemoteStop == [set |-> FALSE, timestamp |-> 0, tagID |-> ""]

NoTransaction ==
  [id |-> 0, connectorId |-> 0, meterStart |-> 0, timestamp |-> 0,
   lastConsumption |-> [value |-> 0, timestamp |-> 0],
   tagID |-> NoTag,
   numberOfMeterValues |-> 0, transactionEndReceived |-> FALSE,
   currentTotalConsumptionWh |-> 0, currentTotalInactivitySecs |-> 0,
   stateOfCharge |-> 0, currentStateOfCharge |-> 0, remotestop |-> NoRemoteStop,
   ocpiSession |-> FALSE, ocpiCdr |-> FALSE, stop |-> NoStop]

IdleHandler ==
  [pc |-> "idle", request |-> [transactionId |-> 0, connectorId |-> 0, status |-> "none",
                               meterStop |-> 0, timestamp |-> 0,
                               idTag |-> NullTag, meterStart |-> 0, roaming |-> FALSE],
   transaction |-> NoTransaction, connectors |-> <<>>, saved |-> 0, response |-> "none",
   authorize |-> "none"]

\* ---------------------------------------------------------------- storage
getTransaction(db, id) == IF id \in DOMAIN db.transactions THEN id ELSE 0

saveTransaction(db, transaction) ==
  [db EXCEPT !.transactions =
     [i \in DOMAIN db.transactions \cup {transaction.id} |->
        IF i = transaction.id THEN transaction ELSE db.transactions[i]],
   !.consumptions =
     [i \in DOMAIN db.consumptions \cup {transaction.id} |->
        IF i \in DOMAIN db.consumptions THEN db.consumptions[i] ELSE <<>>],
   !.cdrPushes =
     [i \in DOMAIN db.cdrPushes \cup {transaction.id} |->
        IF i \in DOMAIN db.cdrPushes THEN db.cdrPushes[i] ELSE 0]]

deleteTransaction(db, id) ==
  [db EXCEPT !.transactions = [i \in DOMAIN db.transactions \ {id} |-> db.transactions[i]],
             !.consumptions = [i \in DOMAIN db.consumptions \ {id} |-> db.consumptions[i]]]

saveConsumption(db, id, consumption) ==
  IF id \in DOMAIN db.consumptions
  THEN [db EXCEPT !.consumptions[id] = Append(@, consumption)]
  ELSE db

findAvailableID(db) == db.lastTransactionID + 1

OpenOn(db, connectorId) ==
  {i \in DOMAIN db.transactions :
     db.transactions[i].connectorId = connectorId /\ ~db.transactions[i].stop.set}

\* the open transaction of the connector (the oldest when there are several), 0 if none
getActiveTransaction(db, connectorId) ==
  IF OpenOn(db, connectorId) = {} THEN 0
  ELSE CHOOSE i \in OpenOn(db, connectorId) : \A j \in OpenOn(db, connectorId) : i <= j

\* the transaction started last on the connector, 0 if none
getLastTransactionFromChargingStation(db, connectorId) ==
  LET on == {i \in DOMAIN db.transactions : db.transactions[i].connectorId = connectorId}
  IN IF on = {} THEN 0 ELSE CHOOSE i \in on : \A j \in on : i >= j

saveChargingStation(db, conns) == [db EXCEPT !.connectors = conns]

\* chargingStation.lastSeen = new Date(), saved with the station
setLastSeen(db) == [db EXCEPT !.lastSeen = db.now]

\* ------------------------------------------------------- connector helpers
getConnectorFromID(conns, connectorId) ==
  IF \E k \in 1..Len(conns) : conns[k].connectorId = connectorId
  THEN CHOOSE k \in 1..Len(conns) : conns[k].connectorId = connectorId
  ELSE 0

checkAndFreeChargingStationConnector(conns, connectorId) ==
  [k \in 1..Len(conns) |->
     IF conns[k].connectorId = connectorId
     THEN [conns[k] EXCEPT !.currentTransactionID = 0,
                           !.currentTotalConsumptionWh = 0,
                           !.currentTagID = NoTag,
                           !.currentTransactionDate = NoDate]
     ELSE conns[k]]

\* ------------------------------------------------------------ measurands
EnergyActiveImportRegister == "Energy.Active.Import.Register"

StateOfCharge == "SoC"

isEnergyActiveImportMeterValue(meterValue) ==
  meterValue.measurand = EnergyActiveImportRegister

\* ---------------------------------------------------- consumption builder
\* One interval per reading that lies strictly after the anchor
RECURSIVE BuildConsumptions(_, _, _, _, _)
BuildConsumptions(meterStart, anchor, inactivitySecs, meterValues, built) ==
  IF meterValues = <<>>
  THEN [lastConsumption |-> anchor, consumptions |-> built]
  ELSE LET meterValue == Head(meterValues)
           intervalSecs == meterValue.timestamp - anchor.timestamp
           consumptionWh == Max(0, meterValue.value - anchor.value)
           totalInactivitySecs ==
             IF consumptionWh = 0 THEN inactivitySecs + intervalSecs ELSE inactivitySecs
       IN IF intervalSecs <= 0
          THEN BuildConsumptions(meterStart, anchor, inactivitySecs, Tail(meterValues), built)
          ELSE BuildConsumptions(meterStart,
                 [value |-> meterValue.value, timestamp |-> meterValue.timestamp],
                 totalInactivitySecs, Tail(meterValues),
                 Append(built,
                   [startedAt |-> anchor.timestamp, endedAt |-> meterValue.timestamp,
                    consumptionWh |-> consumptionWh,
                    cumulatedConsumptionWh |-> meterValue.value - meterStart,
                    totalInactivitySecs |-> totalInactivitySecs,
                    stateOfCharge |-> 0]))

\* the state of charge of the most recent SoC reading at or before the instant;
\* the transaction's current one when the payload holds none
StateOfChargeAt(transaction, meterValues, instant) ==
  LET readings == {k \in 1..Len(meterValues) :
                     /\ meterValues[k].measurand = StateOfCharge
                     /\ meterValues[k].timestamp <= instant}
  IN IF readings = {} THEN transaction.currentStateOfCharge
     ELSE meterValues[CHOOSE k \in readings : \A j \in readings : j <= k].value

createConsumptionsFromMeterValues(transaction, meterValues) ==
  LET built == BuildConsumptions(transaction.meterStart, transaction.lastConsumption,
                                 transaction.currentTotalInactivitySecs,
                                 SelectSeq(meterValues, isEnergyActiveImportMeterValue), <<>>)
  IN [lastConsumption |-> built.lastConsumption,
      consumptions |->
        [k \in 1..Len(built.consumptions) |->
           [built.consumptions[k] EXCEPT
              !.stateOfCharge =
                 StateOfChargeAt(transaction, meterValues, built.consumptions[k].endedAt)]]]

updateTransactionWithConsumption(transaction, consumption) ==
  [transaction EXCEPT
     !.currentTotalConsumptionWh = consumption.cumulatedConsumptionWh,
     !.currentTotalInactivitySecs = consumption.totalInactivitySecs,
     !.currentStateOfCharge = consumption.stateOfCharge]

createTransactionStopMeterValues(transaction, stopTransaction) ==
  <<[timestamp |-> stopTransaction.timestamp, value |-> stopTransaction.meterStop,
     context |-> "Transaction.End", measurand |-> EnergyActiveImportRegister]>>

updateTransactionWithStopTransactionAndStopMeterValues(transaction, stopTransaction, tagId) ==
  [transaction EXCEPT !.stop =
     [set |-> TRUE, timestamp |-> stopTransaction.timestamp,
      meterStop |-> stopTransaction.meterStop,
      totalConsumptionWh |-> transaction.currentTotalConsumptionWh,
      totalInactivitySecs |-> transaction.currentTotalInactivitySecs,
      totalDurationSecs |-> stopTransaction.timestamp - transaction.timestamp,
      inactivityStatus |-> getInactivityStatusLevel(transaction.currentTotalInactivitySecs),
      extraInactivitySecs |-> 0, extraInactivityComputed |-> FALSE, tagID |-> tagId]]

RECURSIVE saveConsumptions(_, _, _)
saveConsumptions(db, id, rows) ==
  IF rows = <<>> THEN db
  ELSE saveConsumptions(saveConsumption(db, id, Head(rows)), id, Tail(rows))

\* ------------------------------------------------------- StopTransaction
\* for (const consumption of consumptions) { ... } of handleStopTransaction
\* the stop block is written from the totals before the closing interval
RECURSIVE StopConsumptionLoop_StopOnly(_, _, _, _)
StopConsumptionLoop_StopOnly(transaction, rows, stopTransaction, tagId) ==
  IF rows = <<>> THEN transaction
  ELSE StopConsumptionLoop_StopOnly(
         updateTransactionWithStopTransactionAndStopMeterValues(transaction, stopTransaction,
                                                                 tagId),
         Tail(rows), stopTransaction, tagId)

RECURSIVE StopConsumptionLoop(_, _, _, _)
StopConsumptionLoop(transaction, rows, stopTransaction, tagId) ==
  IF rows = <<>> THEN transaction
  ELSE StopConsumptionLoop(
         updateTransactionWithStopTransactionAndStopMeterValues(
           updateTransactionWithConsumption(transaction, Head(rows)), stopTransaction, tagId),
         Tail(rows), stopTransaction, tagId)

\* the seconds within which a remote stop of the central system names the stopper
RemoteStopSecs == 60

\* a request property that holds a tag: null, "" and 0 are not
idTagProvided(idTag) ==
  /\ idTag.type # "null"
  /\ ~(idTag.type = "integer" /\ idTag.number = 0)
  /\ ~(idTag.type = "string" /\ idTag.text = "")

\* the stop's own tag is taken before the remote stop is looked at
getStopTransactionTagId_IdTagFirst(stopTransaction, transaction, instant) ==
  IF idTagProvided(stopTransaction.idTag)
  THEN IF stopTransaction.idTag.type = "integer"
       THEN ToString(stopTransaction.idTag.number) ELSE stopTransaction.idTag.text
  ELSE IF transaction.remotestop.set
          /\ instant - transaction.remotestop.timestamp < RemoteStopSecs
  THEN transaction.remotestop.tagID
  ELSE transaction.tagID

getStopTransactionTagId(stopTransaction, transaction, instant) ==
  IF transaction.remotestop.set /\ instant - transaction.remotestop.timestamp < RemoteStopSecs
  THEN transaction.remotestop.tagID
  ELSE IF idTagProvided(stopTransaction.idTag)
  THEN IF stopTransaction.idTag.type = "integer"
       THEN ToString(stopTransaction.idTag.number) ELSE stopTransaction.idTag.text
  ELSE transaction.tagID

Answer(db, status, transactionId, error) ==
  [db |-> db, status |-> status, transactionId |-> transactionId, error |-> error]

\* handleStopTransaction once the transaction is found, authorized and open
StopOpenTransaction(db, transaction, stopTransaction, isSoftStop) ==
  LET db1 == setLastSeen(saveChargingStation(db,
               checkAndFreeChargingStationConnector(db.connectors, transaction.connectorId)))
      stop == IF isSoftStop
              THEN [stopTransaction EXCEPT !.meterStop = transaction.lastConsumption.value]
              ELSE stopTransaction
      stopMeterValues == createTransactionStopMeterValues(transaction, stop)
      built == createConsumptionsFromMeterValues(transaction, stopMeterValues)
      transaction1 == [transaction EXCEPT !.lastConsumption = built.lastConsumption]
      tagId == getStopTransactionTagId(stopTransaction, transaction, db.now)
      transaction2 == StopConsumptionLoop(transaction1, built.consumptions, stop, tagId)
      db2 == saveConsumptions(db1, transaction.id, built.consumptions)
  IN Answer(saveTransaction(db2, transaction2), "Accepted", 0, "none")

\* the OCPP versions a station declares, and the shapes a transactionData has
OcppVersions == {"1.5", "1.6"}
NoTransactionData == "none"
TransactionDataShapes == {NoTransactionData} \cup OcppVersions

\* OCPPValidation: a transactionData has the shape of the station's OCPP version
validateStopTransaction(stopTransaction) ==
  stopTransaction.transactionData \in {NoTransactionData, stopTransaction.ocppVersion}

\* the connector is freed and the station saved before the stop block is looked at
handleStopTransaction_FreeBeforeCheck(db, stopTransaction, isSoftStop, stoppedByCentralSystem, authorized) ==
  IF ~validateStopTransaction(stopTransaction)
  THEN Answer(db, "Invalid", 0, "InvalidPayload")
  ELSE IF stopTransaction.transactionId = 0
  THEN Answer(db, "Accepted", 0, "none")
  ELSE IF getTransaction(db, stopTransaction.transactionId) = 0
  THEN Answer(db, "Invalid", 0, "TransactionNotFound")
  ELSE IF ~stoppedByCentralSystem /\ ~authorized
  THEN Answer(db, "Invalid", 0, "NotAuthorized")
  ELSE IF db.transactions[stopTransaction.transactionId].stop.set
  THEN Answer(saveChargingStation(db,
                checkAndFreeChargingStationConnector(db.connectors,
                  db.transactions[stopTransaction.transactionId].connectorId)),
              "Invalid", 0, "AlreadyStopped")
  ELSE StopOpenTransaction(db, db.transactions[stopTransaction.transactionId],
                           stopTransaction, isSoftStop)

\* lastSeen is written before transactionId 0 is looked at
handleStopTransaction_LastSeenFirst(db, stopTransaction, isSoftStop, stoppedByCentralSystem, authorized) ==
  IF ~validateStopTransaction(stopTransaction)
  THEN Answer(db, "Invalid", 0, "InvalidPayload")
  ELSE IF stopTransaction.transactionId = 0
  THEN Answer(setLastSeen(db), "Accepted", 0, "none")
  ELSE IF getTransaction(db, stopTransaction.transactionId) = 0
  THEN Answer(db, "Invalid", 0, "TransactionNotFound")
  ELSE IF ~stoppedByCentralSystem /\ ~authorized
  THEN Answer(db, "Invalid", 0, "NotAuthorized")
  ELSE IF db.transactions[stopTransaction.transactionId].stop.set
  THEN Answer(db, "Invalid", 0, "AlreadyStopped")
  ELSE StopOpenTransaction(db, db.transactions[stopTransaction.transactionId],
                           stopTransaction, isSoftStop)

handleStopTransaction(db, stopTransaction, isSoftStop, stoppedByCentralSystem, authorized) ==
  IF ~validateStopTransaction(stopTransaction)
  THEN Answer(db, "Invalid", 0, "InvalidPayload")
  ELSE IF stopTransaction.transactionId = 0
  THEN Answer(db, "Accepted", 0, "none")
  ELSE IF getTransaction(db, stopTransaction.transactionId) = 0
  THEN Answer(db, "Invalid", 0, "TransactionNotFound")
  ELSE IF ~stoppedByCentralSystem /\ ~authorized
  THEN Answer(db, "Invalid", 0, "NotAuthorized")
  ELSE IF db.transactions[stopTransaction.transactionId].stop.set
  THEN Answer(db, "Invalid", 0, "AlreadyStopped")
  ELSE StopOpenTransaction(db, db.transactions[stopTransaction.transactionId],
                           stopTransaction, isSoftStop)

\* ------------------------------------------- stopOrDeleteActiveTransactions
\* the loop goes on although the transaction found is the one handled last
AvoidInfiniteLoop_Never(lastCheckedTransactionID, activeTransaction) == FALSE

\* Avoid infinite Loop: the transaction found is the one handled last
AvoidInfiniteLoop(lastCheckedTransactionID, activeTransaction) ==
  lastCheckedTransactionID = activeTransaction

\* Simulate a Stop Transaction
simulateStopTransaction(db, activeTransaction) ==
  handleStopTransaction(db,
    [transactionId |-> activeTransaction,
     meterStop |-> db.transactions[activeTransaction].lastConsumption.value,
     timestamp |-> db.transactions[activeTransaction].lastConsumption.timestamp,
     idTag |-> NullTag, transactionData |-> NoTransactionData, ocppVersion |-> "1.6"],
    FALSE, TRUE, TRUE)

RECURSIVE StopOrDeleteLoop(_, _, _)
StopOrDeleteLoop(db, connectorId, lastCheckedTransactionID) ==
  LET activeTransaction == getActiveTransaction(db, connectorId)
  IN IF activeTransaction = 0 THEN db
     ELSE IF AvoidInfiniteLoop(lastCheckedTransactionID, activeTransaction) THEN db
     ELSE IF db.transactions[activeTransaction].currentTotalConsumptionWh <= 0
     THEN StopOrDeleteLoop(deleteTransaction(db, activeTransaction), connectorId,
                           activeTransaction)
     ELSE StopOrDeleteLoop(simulateStopTransaction(db, activeTransaction).db,
                           connectorId, activeTransaction)

stopOrDeleteActiveTransactions(db, connectorId) == StopOrDeleteLoop(db, connectorId, 0)

\* ------------------------------------------------------ StartTransaction
\* the transaction object handleStartTransaction creates
newTransaction(id, startTransaction) ==
  [id |-> id,
   connectorId |-> startTransaction.connectorId,
   meterStart |-> startTransaction.meterStart,
   timestamp |-> startTransaction.timestamp,
   tagID |-> tagText(startTransaction.idTag),
   lastConsumption |-> [value |-> startTransaction.meterStart,
                        timestamp |-> startTransaction.timestamp],
   numberOfMeterValues |-> 0,
   transactionEndReceived |-> FALSE,
   currentTotalConsumptionWh |-> 0,
   currentTotalInactivitySecs |-> 0,
   stateOfCharge |-> 0,
   currentStateOfCharge |-> 0,
   remotestop |-> NoRemoteStop,
   ocpiSession |-> startTransaction.roaming,
   ocpiCdr |-> FALSE,
   stop |-> NoStop]

\* the connector keeps the date of the transaction it had before
startOnConnector_NoDate(conns, transaction) ==
  LET k == getConnectorFromID(conns, transaction.connectorId)
  IN IF k = 0 THEN conns
     ELSE [conns EXCEPT
             ![k].currentTotalConsumptionWh = 0,
             ![k].currentTransactionID = transaction.id,
             ![k].currentTagID = transaction.tagID]

\* what handleStartTransaction writes on the connector of the transaction
startOnConnector(conns, transaction) ==
  LET k == getConnectorFromID(conns, transaction.connectorId)
  IN IF k = 0 THEN conns
     ELSE [conns EXCEPT
             ![k].currentTotalConsumptionWh = 0,
             ![k].currentTransactionID = transaction.id,
             ![k].currentTransactionDate = transaction.timestamp,
             ![k].currentTagID = transaction.tagID]

\* OCPPValidation: the payload of a StartTransaction / Authorize
validateStartTransaction(startTransaction) == isTagIDValid(startTransaction.idTag)
validateAuthorize(authorize) == isTagIDValid(authorize.idTag)

\* the ongoing transactions of the connector are cleaned up before the payload
\* is validated
handleStartTransaction_CleanupFirst(db, startTransaction, authorized) ==
  LET db1 == stopOrDeleteActiveTransactions(db, startTransaction.connectorId)
  IN IF ~validateStartTransaction(startTransaction)
     THEN Answer(db1, "Invalid", 0, "InvalidPayload")
     ELSE IF ~authorized
     THEN Answer(db1, "Invalid", 0, "NotAuthorized")
     ELSE
       LET transaction == newTransaction(findAvailableID(db1), startTransaction)
           db2 == [saveTransaction(db1, transaction) EXCEPT
                     !.lastTransactionID = transaction.id]
           conns == startOnConnector(db2.connectors, transaction)
       IN Answer(setLastSeen(saveChargingStation(db2, conns)), "Accepted", transaction.id,
                 "none")

handleStartTransaction(db, startTransaction, authorized) ==
  IF ~validateStartTransaction(startTransaction)
  THEN Answer(db, "Invalid", 0, "InvalidPayload")
  ELSE IF ~authorized
  THEN Answer(db, "Invalid", 0, "NotAuthorized")
  ELSE
    LET db1 == stopOrDeleteActiveTransactions(db, startTransaction.connectorId)
        transaction == newTransaction(findAvailableID(db1), startTransaction)
        db2 == [saveTransaction(db1, transaction) EXCEPT !.lastTransactionID = transaction.id]
        conns == startOnConnector(db2.connectors, transaction)
    IN Answer(setLastSeen(saveChargingStation(db2, conns)), "Accepted", transaction.id,
              "none")

\* -------------------------------------------------------------- Authorize
\* Authorizations.isAuthorizedOnChargingStation: the user of the tag
isAuthorizedOnChargingStation(idTag) == getUserByTagId(tagText(idTag))

\* the payload is not validated: any tag with an active user is accepted
handleAuthorize_NoValidation(db, authorize) ==
  LET user == isAuthorizedOnChargingStation(authorize.idTag)
  IN IF ~user.found
     THEN Answer(db, "Invalid", 0, "NotAuthorized")
     ELSE IF ~user.issuer /\ user.authorizationID = ""
     THEN Answer(db, "Invalid", 0, "NoAuthorizationID")
     ELSE IF ~user.issuer /\ ~authorize.public
     THEN Answer(db, "Invalid", 0, "PrivateChargingStation")
     ELSE Answer(db, "Accepted", 0, "none")

handleAuthorize(db, authorize) ==
  IF ~validateAuthorize(authorize)
  THEN Answer(db, "Invalid", 0, "InvalidPayload")
  ELSE
    LET user == isAuthorizedOnChargingStation(authorize.idTag)
    IN IF ~user.found
       THEN Answer(db, "Invalid", 0, "NotAuthorized")
       ELSE IF ~user.issuer /\ user.authorizationID = ""
       THEN Answer(db, "Invalid", 0, "NoAuthorizationID")
       ELSE IF ~user.issuer /\ ~authorize.public
       THEN Answer(db, "Invalid", 0, "PrivateChargingStation")
       ELSE Answer(db, "Accepted", 0, "none")

\* ------------------------------------------------------------ MeterValues
\* What Array.filter sees from an async callback: the Promise, never the
\* boolean it resolves to; a Promise is truthy.
Promise(value) == [kind |-> "Promise", value |-> value]
Truthy(x) == x.kind = "Promise" \/ x.value

filterMeterValuesOnSpecificChargingStations(values) ==
  SelectSeq(values, LAMBDA meterValue : Truthy(Promise(meterValue.context # "Sample.Clock")))

\* every modelled value is an Energy.Active.Import.Register reading: it is counted,
\* and the first Transaction.End value raises transactionEndReceived
RECURSIVE updateTransactionWithMeterValues(_, _)
updateTransactionWithMeterValues(transaction, meterValues) ==
  IF meterValues = <<>> THEN transaction
  ELSE LET meterValue == Head(meterValues)
           ended == [transaction EXCEPT
                       !.transactionEndReceived = @ \/ meterValue.context = "Transaction.End"]
       IN updateTransactionWithMeterValues(
            IF meterValue.measurand = StateOfCharge /\ meterValue.context = "Transaction.Begin"
            THEN [ended EXCEPT !.stateOfCharge = meterValue.value]
            ELSE IF meterValue.measurand = StateOfCharge
                    /\ meterValue.context = "Transaction.End"
            THEN [ended EXCEPT !.currentStateOfCharge = meterValue.value]
            ELSE IF isEnergyActiveImportMeterValue(meterValue)
            THEN [ended EXCEPT !.numberOfMeterValues = @ + 1]
            ELSE ended,
            Tail(meterValues))

\* the consumptions are saved without updating the transaction's running totals
MeterValuesConsumptionLoop_NoUpdate(transaction, rows) == transaction

RECURSIVE MeterValuesConsumptionLoop(_, _)
MeterValuesConsumptionLoop(transaction, rows) ==
  IF rows = <<>> THEN transaction
  ELSE MeterValuesConsumptionLoop(updateTransactionWithConsumption(transaction, Head(rows)),
                                  Tail(rows))

\* the connector takes the transaction id but not its running total
updateChargingStationWithTransaction_NoTotal(conns, transaction) ==
  LET k == getConnectorFromID(conns, transaction.connectorId)
  IN IF k = 0 THEN conns
     ELSE IF ~transaction.stop.set
     THEN [conns EXCEPT ![k].currentTagID = transaction.tagID,
                        ![k].currentTransactionID = transaction.id]
     ELSE checkAndFreeChargingStationConnector(conns, transaction.connectorId)

updateChargingStationWithTransaction(conns, transaction) ==
  LET k == getConnectorFromID(conns, transaction.connectorId)
  IN IF k = 0 THEN conns
     ELSE IF ~transaction.stop.set
     THEN [conns EXCEPT
             ![k].currentTotalConsumptionWh = transaction.currentTotalConsumptionWh,
             ![k].currentTagID = transaction.tagID,
             ![k].currentTransactionID = transaction.id]
     ELSE checkAndFreeChargingStationConnector(conns, transaction.connectorId)

\* updateChargingStationWithTransaction sets lastSeen in its first branch only
updatesLastSeen(conns, transaction) ==
  ~transaction.stop.set /\ getConnectorFromID(conns, transaction.connectorId) # 0

\* ---------------------------------------------- end-of-charge notifications
NotificationFetchLimit == 3

\* the identifier under which the end-of-charge notification of a transaction is sent
EndOfChargeNotificationID(transaction) == <<transaction.id, "EOC">>

\* a notification already sent under the same identifier is not sent again
sendNotification(db, kind, notificationID, transaction) ==
  IF \E k \in 1..Len(db.notifications) :
       /\ db.notifications[k].kind = kind
       /\ db.notifications[k].notificationID = notificationID
  THEN db
  ELSE [db EXCEPT !.notifications =
          Append(@, [kind |-> kind, notificationID |-> notificationID,
                     transactionId |-> transaction.id,
                     stateOfCharge |-> transaction.currentStateOfCharge])]

notifyEndOfCharge(db, transaction) ==
  IF transaction.tagID # NoTag
  THEN sendNotification(db, "EndOfCharge", EndOfChargeNotificationID(transaction), transaction)
  ELSE db

\* the identifier changes with every meter value of the transaction
notifyOptimalChargeReached_KeyPerMeterValue(db, transaction) ==
  IF transaction.tagID # NoTag
  THEN sendNotification(db, "OptimalChargeReached",
                        <<transaction.id, "OCR", transaction.numberOfMeterValues>>, transaction)
  ELSE db

notifyOptimalChargeReached(db, transaction) ==
  IF transaction.tagID # NoTag
  THEN sendNotification(db, "OptimalChargeReached", <<transaction.id, "OCR">>, transaction)
  ELSE db

\* the rows of the transaction with the latest startedAt, at most limit of them;
\* the rows are stored in the order of their startedAt
getTransactionConsumptions(db, transactionId, limit) ==
  LET rows == IF transactionId \in DOMAIN db.consumptions
              THEN db.consumptions[transactionId] ELSE <<>>
  IN SubSeq(rows, Max(1, Len(rows) - limit + 1), Len(rows))

\* no row is limited by a charging profile
LastConsumptionsAllZero(db, transaction) ==
  LET rows == getTransactionConsumptions(db, transaction.id, NotificationFetchLimit)
  IN \A k \in 1..Len(rows) : rows[k].consumptionWh = 0

checkNotificationEndOfCharge(db, transaction) ==
  IF transaction.stop.set THEN db
  ELSE IF ~(transaction.numberOfMeterValues > 1 /\ transaction.currentTotalConsumptionWh > 0)
  THEN db
  ELSE IF db.chargingStationConfig.notifEndOfChargeEnabled
          /\ transaction.currentTotalConsumptionWh > 0
  THEN IF transaction.currentStateOfCharge = 100
       THEN notifyEndOfCharge(db, transaction)
       ELSE IF LastConsumptionsAllZero(db, transaction)
       THEN notifyEndOfCharge(db, transaction)
       ELSE db
  ELSE IF db.chargingStationConfig.notifBeforeEndOfChargeEnabled
          /\ transaction.currentStateOfCharge
               >= db.chargingStationConfig.notifBeforeEndOfChargePercent
  THEN notifyOptimalChargeReached(db, transaction)
  ELSE db

\* the consumptions are saved, the transaction they advanced is not
handleMeterValues_NoSaveTransaction(db, meterValues) ==
  LET values == filterMeterValuesOnSpecificChargingStations(meterValues.values)
  IN IF values = <<>> \/ meterValues.transactionId = 0
     THEN Answer(db, "{}", 0, "none")
     ELSE IF getTransaction(db, meterValues.transactionId) = 0
     THEN Answer(db, "{}", 0, "TransactionNotFound")
     ELSE
       LET transaction == updateTransactionWithMeterValues(
                            db.transactions[meterValues.transactionId], values)
           built == createConsumptionsFromMeterValues(transaction, values)
           transaction1 == MeterValuesConsumptionLoop(
                             [transaction EXCEPT !.lastConsumption = built.lastConsumption],
                             built.consumptions)
           db1 == saveConsumptions(db, transaction.id, built.consumptions)
           db3 == saveChargingStation(
                    checkNotificationEndOfCharge(db1, transaction1),
                    updateChargingStationWithTransaction(db1.connectors, transaction1))
       IN Answer(IF updatesLastSeen(db1.connectors, transaction1) THEN setLastSeen(db3)
                 ELSE db3, "{}", 0, "none")

handleMeterValues(db, meterValues) ==
  LET values == filterMeterValuesOnSpecificChargingStations(meterValues.values)
  IN IF values = <<>> \/ meterValues.transactionId = 0
     THEN Answer(db, "{}", 0, "none")
     ELSE IF getTransaction(db, meterValues.transactionId) = 0
     THEN Answer(db, "{}", 0, "TransactionNotFound")
     ELSE
       LET transaction == updateTransactionWithMeterValues(
                            db.transactions[meterValues.transactionId], values)
           built == createConsumptionsFromMeterValues(transaction, values)
           transaction1 == MeterValuesConsumptionLoop(
                             [transaction EXCEPT !.lastConsumption = built.lastConsumption],
                             built.consumptions)
           db1 == saveConsumptions(db, transaction.id, built.consumptions)
           db2 == saveTransaction(db1, transaction1)
           db3 == saveChargingStation(
                    checkNotificationEndOfCharge(db2, transaction1),
                    updateChargingStationWithTransaction(db2.connectors, transaction1))
       IN Answer(IF updatesLastSeen(db2.connectors, transaction1) THEN setLastSeen(db3)
                 ELSE db3, "{}", 0, "none")

\* ------------------------------------------------------ StatusNotification
\* result: the handler's transaction object and the storage
buildExtraConsumptionInactivity(db, transaction) ==
  IF transaction.stop.extraInactivitySecs > 0
  THEN [transaction |->
          [transaction EXCEPT !.stop.totalInactivitySecs =
                                 @ + transaction.stop.extraInactivitySecs],
        db |-> saveConsumption(db, transaction.id,
          [startedAt |-> transaction.stop.timestamp,
           endedAt |-> transaction.stop.timestamp + transaction.stop.extraInactivitySecs,
           consumptionWh |-> 0,
           cumulatedConsumptionWh |-> transaction.stop.totalConsumptionWh,
           totalInactivitySecs |-> transaction.stop.totalInactivitySecs
                                   + transaction.stop.extraInactivitySecs,
           stateOfCharge |-> transaction.currentStateOfCharge])]
  ELSE [transaction |-> transaction, db |-> db]

\* result: the handler's transaction object and the storage
checkAndSendOCPITransactionCdr(db, transaction) ==
  IF transaction.ocpiSession /\ ~transaction.ocpiCdr
  THEN [transaction |-> [transaction EXCEPT !.ocpiCdr = TRUE],
        db |-> [db EXCEPT !.cdrPushes[transaction.id] = @ + 1]]
  ELSE [transaction |-> transaction, db |-> db]

\* extra inactivity is computed whether or not it was computed before
checkLastTransaction_NoGuard(db, statusNotification) ==
  IF statusNotification.status # "Available" THEN db
  ELSE
    LET id == getLastTransactionFromChargingStation(db, statusNotification.connectorId)
    IN IF id = 0 THEN db
       ELSE IF ~db.transactions[id].stop.set THEN db
       ELSE
         LET lastTransaction == db.transactions[id]
             extraInactivitySecs ==
               statusNotification.timestamp - lastTransaction.stop.timestamp
             transaction1 ==
               [lastTransaction EXCEPT
                  !.stop.extraInactivitySecs = extraInactivitySecs,
                  !.stop.extraInactivityComputed = TRUE,
                  !.stop.inactivityStatus = getInactivityStatusLevel(
                     lastTransaction.stop.totalInactivitySecs + extraInactivitySecs)]
             built == buildExtraConsumptionInactivity(db, transaction1)
             pushed == checkAndSendOCPITransactionCdr(built.db, built.transaction)
         IN saveTransaction(pushed.db, pushed.transaction)

checkLastTransaction(db, statusNotification) ==
  IF statusNotification.status # "Available" THEN db
  ELSE
    LET id == getLastTransactionFromChargingStation(db, statusNotification.connectorId)
    IN IF id = 0 THEN db
       ELSE IF ~db.transactions[id].stop.set THEN db
       ELSE
         LET lastTransaction == db.transactions[id]
             compute == ~lastTransaction.stop.extraInactivityComputed
             extraInactivitySecs ==
               statusNotification.timestamp - lastTransaction.stop.timestamp
             transaction1 ==
               IF compute
               THEN [lastTransaction EXCEPT
                       !.stop.extraInactivitySecs = extraInactivitySecs,
                       !.stop.extraInactivityComputed = TRUE,
                       !.stop.inactivityStatus = getInactivityStatusLevel(
                          lastTransaction.stop.totalInactivitySecs + extraInactivitySecs)]
               ELSE lastTransaction
             built == IF compute THEN buildExtraConsumptionInactivity(db, transaction1)
                      ELSE [transaction |-> transaction1, db |-> db]
             pushed == checkAndSendOCPITransactionCdr(built.db, built.transaction)
         IN saveTransaction(pushed.db, pushed.transaction)

updateConnectorStatus(db, statusNotification) ==
  LET conns0 == IF getConnectorFromID(db.connectors, statusNotification.connectorId) = 0
                THEN Append(db.connectors, NewConnector(statusNotification.connectorId))
                ELSE db.connectors
      k == getConnectorFromID(conns0, statusNotification.connectorId)
  IN IF /\ conns0[k].status = statusNotification.status
        /\ conns0[k].errorCode = statusNotification.errorCode
        /\ conns0[k].info = statusNotification.info
     THEN Answer(db, "{}", 0, "NoChange")
     ELSE
       LET db1 == checkLastTransaction(db, statusNotification)
           conns1 == [conns0 EXCEPT
                       ![k].status = statusNotification.status,
                       ![k].errorCode = statusNotification.errorCode,
                       ![k].info = IF statusNotification.info \in {Undefined, ""}
                                   THEN "" ELSE statusNotification.info]
           ongoing == /\ conns1[k].currentTransactionID > 0
                      /\ statusNotification.status = "Available"
           db2 == IF ongoing
                  THEN stopOrDeleteActiveTransactions(db1, statusNotification.connectorId)
                  ELSE db1
           conns2 == IF ongoing
                     THEN checkAndFreeChargingStationConnector(conns1,
                                                               statusNotification.connectorId)
                     ELSE conns1
           conns3 == SortSeq(conns2, LAMBDA c1, c2 : c1.connectorId < c2.connectorId)
       IN Answer(setLastSeen(saveChargingStation(db2, conns3)), "{}", 0, "none")

\* a notification for connector 0 is handled like the one of a connector
handleStatusNotification_NoSkip(db, statusNotification) ==
  updateConnectorStatus(db, statusNotification)

handleStatusNotification(db, statusNotification) ==
  IF statusNotification.connectorId > 0
  THEN updateConnectorStatus(db, statusNotification)
  ELSE Answer(db, "{}", 0, "none")

\* ---------------------------------------------------------------- actions
Commit(r) ==
  /\ transactions' = r.db.transactions
  /\ consumptions' = r.db.consumptions
  /\ connectors' = r.db.connectors
  /\ lastTransactionID' = r.db.lastTransactionID
  /\ cdrPushes' = r.db.cdrPushes
  /\ lastSeen' = r.db.lastSeen
  /\ now' = r.db.now
  /\ chargingStation' = r.db.chargingStation
  /\ bootNotifications' = r.db.bootNotifications
  /\ notifications' = r.db.notifications
  /\ chargingStationConfig' = r.db.chargingStationConfig
  /\ UNCHANGED <<handlers, locks, restVars>>

\* the tags a station starts with: the numeric tag, as a number and as text
StartTags == {IntegerTag(NumberTag), StringTag(ToString(NumberTag))}

\* the tags the payload validation refuses: 21 characters, empty, null
InvalidStartTags == {StringTag(InvalidTag), StringTag(""), NullTag}

StartTransactionRequests ==
  [connectorId : ConnectorIds, idTag : StartTags \cup InvalidStartTags, meterStart : Meters,
   timestamp : Times, roaming : {FALSE}]

\* stops without transactionData
StopTransactionRequests ==
  [transactionId : 0..MaxTx, meterStop : Meters, timestamp : Times, idTag : {NullTag},
   transactionData : {NoTransactionData}, ocppVersion : {"1.6"}]

MeterValueSet == [timestamp : Times, value : Meters, context : Contexts,
                  measurand : {EnergyActiveImportRegister}]

MeterValuesRequests ==
  [transactionId : 0..MaxTx, values : SeqsUpTo(MeterValueSet, MaxBatch)]

Statuses == {"Available", "Charging"}

StatusNotificationRequests ==
  [connectorId : 0..MaxConnector, status : Statuses, timestamp : Times,
   errorCode : {"NoError"}, info : {"Info"}]

StartTransaction ==
  \E startTransaction \in StartTransactionRequests, authorized \in BOOLEAN :
    /\ lastTransactionID < MaxTx
    /\ Commit(handleStartTransaction(Db, startTransaction, authorized))

StopTransaction ==
  \E stopTransaction \in StopTransactionRequests, authorized \in BOOLEAN :
    Commit(handleStopTransaction(Db, stopTransaction, FALSE, FALSE, authorized))

\* the meter values a transaction has counted so far, 0 for an unknown transaction
numberOfMeterValues(db, id) ==
  IF id \in DOMAIN db.transactions THEN db.transactions[id].numberOfMeterValues ELSE 0

MeterValues ==
  \E meterValues \in MeterValuesRequests :
    /\ numberOfMeterValues(Db, meterValues.transactionId) < MaxMeterValues
    /\ Commit(handleMeterValues(Db, meterValues))

StatusNotification ==
  \E statusNotification \in StatusNotificationRequests :
    Commit(handleStatusNotification(Db, statusNotification))

Init ==
  /\ transactions = <<>>
  /\ consumptions = <<>>
  /\ connectors = <<>>
  /\ lastTransactionID = 0
  /\ cdrPushes = <<>>
  /\ handlers = [h \in Handlers |-> IdleHandler]
  /\ locks = {}
  /\ lastSeen = 0
  /\ now = 0
  /\ chargingStation = RegisteredChargingStation
  /\ bootNotifications = <<>>
  /\ notifications = <<>>
  /\ chargingStationConfig = NoNotificationConfig
  /\ users = <<>>
  /\ migrations = {}
  /\ executions = <<>>

Next ==
  \/ StartTransaction
  \/ StopTransaction
  \/ MeterValues
  \/ StatusNotification

Spec == Init /\ [][Next]_vars

\* ------------------------------ two handlers stopping the same transaction
\* Each await of handleStopTransaction is a point where the other handler may run.
SetDb(db) ==
  /\ transactions = db.transactions
  /\ consumptions = db.consumptions
  /\ connectors = db.connectors
  /\ lastTransactionID = db.lastTransactionID
  /\ cdrPushes = db.cdrPushes
  /\ lastSeen = db.lastSeen
  /\ now = db.now
  /\ chargingStation = db.chargingStation
  /\ bootNotifications = db.bootNotifications
  /\ notifications = db.notifications
  /\ chargingStationConfig = db.chargingStationConfig
  /\ users = <<>>
  /\ migrations = {}
  /\ executions = <<>>

SetDbNext(db) ==
  /\ transactions' = db.transactions
  /\ consumptions' = db.consumptions
  /\ connectors' = db.connectors
  /\ lastTransactionID' = db.lastTransactionID
  /\ cdrPushes' = db.cdrPushes
  /\ lastSeen' = db.lastSeen
  /\ now' = db.now
  /\ chargingStation' = db.chargingStation
  /\ bootNotifications' = db.bootNotifications
  /\ notifications' = db.notifications
  /\ chargingStationConfig' = db.chargingStationConfig
  /\ UNCHANGED restVars

ConnectorReported ==
  handleStatusNotification(EmptyDb,
    [connectorId |-> 1, status |-> "Charging", timestamp |-> 0,
     errorCode |-> "NoError", info |-> "Info"]).db

\* the storage once a transaction was started on connector 1 and readings came in
StopRaceDbs ==
  {handleMeterValues(handleStartTransaction(ConnectorReported, startTransaction, TRUE).db,
                     [transactionId |-> 1, values |-> values]).db :
     startTransaction \in {r \in StartTransactionRequests :
                           r.connectorId = 1 /\ r.idTag \in StartTags},
     values \in SeqsUpTo(MeterValueSet, MaxBatch)}

InitStop ==
  /\ \E db \in StopRaceDbs : SetDb(db)
  /\ handlers = [h \in Handlers |-> IdleHandler]
  /\ locks = {}

\* getTransaction, authorization and the check of transaction.stop; the request is
\* a station's StopTransaction or the one stopOrDeleteActiveTransactions builds
StopLoad(h) ==
  /\ handlers[h].pc = "idle"
  /\ \E recovery \in BOOLEAN, meterStop \in Meters, timestamp \in Times :
       LET transaction == transactions[1]
           stopTransaction ==
             IF recovery
             THEN [IdleHandler.request EXCEPT
                     !.transactionId = 1,
                     !.meterStop = transaction.lastConsumption.value,
                     !.timestamp = transaction.lastConsumption.timestamp]
             ELSE [IdleHandler.request EXCEPT
                     !.transactionId = 1, !.meterStop = meterStop,
                     !.timestamp = timestamp]
       IN /\ recovery => (getActiveTransaction(Db, 1) = 1
                          /\ transaction.currentTotalConsumptionWh > 0)
          /\ handlers' = [handlers EXCEPT
               ![h].request = stopTransaction,
               ![h].transaction = transaction,
               ![h].pc = IF transaction.stop.set THEN "done" ELSE "free",
               ![h].response = IF transaction.stop.set THEN "Invalid" ELSE "none"]
  /\ UNCHANGED <<transactions, consumptions, connectors, lastTransactionID, cdrPushes, locks, lastSeen, now, stationVars, restVars>>

\* checkAndFreeChargingStationConnector and saveChargingStation
StopFreeConnector(h) ==
  /\ handlers[h].pc = "free"
  /\ connectors' = checkAndFreeChargingStationConnector(connectors,
                                                        handlers[h].transaction.connectorId)
  /\ lastSeen' = now
  /\ handlers' = [handlers EXCEPT ![h].pc = "consumptions"]
  /\ UNCHANGED <<transactions, consumptions, lastTransactionID, cdrPushes, locks, now, stationVars, restVars>>

\* the closing consumptions, built from the handler's own transaction object:
\* the object takes the totals and the stop block, the rows are saved
StopSaveConsumptions(h) ==
  /\ handlers[h].pc = "consumptions"
  /\ LET transaction == handlers[h].transaction
         stop == handlers[h].request
         built == createConsumptionsFromMeterValues(transaction,
                    createTransactionStopMeterValues(transaction, stop))
     IN /\ consumptions' = saveConsumptions(Db, transaction.id, built.consumptions).consumptions
        /\ handlers' = [handlers EXCEPT
             ![h].transaction =
                StopConsumptionLoop(
                  [transaction EXCEPT !.lastConsumption = built.lastConsumption],
                  built.consumptions, stop,
                  getStopTransactionTagId(stop, transaction, now)),
             ![h].saved = Len(built.consumptions),
             ![h].pc = "save"]
  /\ UNCHANGED <<transactions, connectors, lastTransactionID, cdrPushes, locks, lastSeen, now, stationVars, restVars>>

\* saveTransaction, then the answer
StopSaveTransaction(h) ==
  /\ handlers[h].pc = "save"
  /\ transactions' = saveTransaction(Db, handlers[h].transaction).transactions
  /\ handlers' = [handlers EXCEPT ![h].pc = "done", ![h].response = "Accepted"]
  /\ UNCHANGED <<consumptions, connectors, lastTransactionID, cdrPushes, locks, lastSeen, now, stationVars, restVars>>

NextStop ==
  \E h \in Handlers :
    \/ StopLoad(h)
    \/ StopFreeConnector(h)
    \/ StopSaveConsumptions(h)
    \/ StopSaveTransaction(h)

SpecStop == InitStop /\ [][NextStop]_vars

\* ------------- two handlers of an Available notification, roaming transaction
\* the storage once a roaming transaction on connector 1 was started and stopped
CdrRaceDbs ==
  {db \in
     {handleStopTransaction(
        handleStartTransaction(ConnectorReported,
          [connectorId |-> 1, idTag |-> StringTag(RoamingTag), meterStart |-> meterStart,
           timestamp |-> timestamp, roaming |-> TRUE], TRUE).db,
        stopTransaction, FALSE, FALSE, TRUE).db :
        meterStart \in Meters, timestamp \in Times,
        stopTransaction \in {r \in StopTransactionRequests : r.transactionId = 1}} :
     db.transactions[1].stop.set}

InitCdr ==
  /\ \E db \in CdrRaceDbs : SetDb(db)
  /\ handlers = [h \in Handlers |-> IdleHandler]
  /\ locks = {}

createOCPIPushCdrLock(transactionId) == <<"ocpi-cdr", transactionId>>

\* updateConnectorStatus up to getLastTransactionFromChargingStation: the station
\* and the last transaction of the connector are read into the handler's objects
CdrLoad(h) ==
  /\ handlers[h].pc = "idle"
  /\ \E timestamp \in Times :
       LET k == getConnectorFromID(connectors, 1)
           id == getLastTransactionFromChargingStation(Db, 1)
       IN handlers' = [handlers EXCEPT
            ![h].request = [IdleHandler.request EXCEPT
                              !.connectorId = 1, !.status = "Available",
                              !.timestamp = timestamp],
            ![h].connectors = connectors,
            ![h].transaction = IF connectors[k].status = "Available"
                               THEN NoTransaction ELSE transactions[id],
            ![h].pc = IF connectors[k].status = "Available" THEN "done" ELSE "extra",
            ![h].response = IF connectors[k].status = "Available" THEN "{}" ELSE "none"]
  /\ UNCHANGED <<transactions, consumptions, connectors, lastTransactionID, cdrPushes, locks, lastSeen, now, stationVars, restVars>>

\* checkLastTransaction: the extra inactivity, on the handler's transaction object
CdrExtraInactivity(h) ==
  /\ handlers[h].pc = "extra"
  /\ LET lastTransaction == handlers[h].transaction
         extraInactivitySecs == handlers[h].request.timestamp - lastTransaction.stop.timestamp
         built ==
           IF ~lastTransaction.stop.extraInactivityComputed
           THEN buildExtraConsumptionInactivity(Db,
                  [lastTransaction EXCEPT
                     !.stop.extraInactivitySecs = extraInactivitySecs,
                     !.stop.extraInactivityComputed = TRUE,
                     !.stop.inactivityStatus = getInactivityStatusLevel(
                        lastTransaction.stop.totalInactivitySecs + extraInactivitySecs)])
           ELSE [transaction |-> lastTransaction, db |-> Db]
     IN /\ consumptions' = built.db.consumptions
        /\ handlers' = [handlers EXCEPT ![h].transaction = built.transaction,
                                        ![h].pc = "lock"]
  /\ UNCHANGED <<transactions, connectors, lastTransactionID, cdrPushes, locks, lastSeen, now, stationVars, restVars>>

\* checkAndSendOCPITransactionCdr: the test of ocpiData.cdr on the handler's
\* object, then createOCPIPushCdrLock, which gives no lock while it is held
CdrAcquireLock(h) ==
  /\ handlers[h].pc = "lock"
  /\ LET transaction == handlers[h].transaction
         lock == createOCPIPushCdrLock(transaction.id)
         wanted == transaction.ocpiSession /\ ~transaction.ocpiCdr
     IN /\ locks' = IF wanted THEN locks \cup {lock} ELSE locks
        /\ handlers' = [handlers EXCEPT
             ![h].pc = IF wanted /\ lock \notin locks THEN "push" ELSE "save"]
  /\ UNCHANGED <<transactions, consumptions, connectors, lastTransactionID, cdrPushes, lastSeen, now, stationVars, restVars>>

\* processOCPITransaction(END): the CDR goes to the roaming platform
CdrPush(h) ==
  /\ handlers[h].pc = "push"
  /\ cdrPushes' = [cdrPushes EXCEPT ![handlers[h].transaction.id] = @ + 1]
  /\ handlers' = [handlers EXCEPT ![h].transaction.ocpiCdr = TRUE, ![h].pc = "release"]
  /\ UNCHANGED <<transactions, consumptions, connectors, lastTransactionID, locks, lastSeen, now, stationVars, restVars>>

\* finally: LockingManager.release
CdrReleaseLock(h) ==
  /\ handlers[h].pc = "release"
  /\ locks' = locks \ {createOCPIPushCdrLock(handlers[h].transaction.id)}
  /\ handlers' = [handlers EXCEPT ![h].pc = "save"]
  /\ UNCHANGED <<transactions, consumptions, connectors, lastTransactionID, cdrPushes, lastSeen, now, stationVars, restVars>>

\* saveTransaction(lastTransaction)
CdrSaveTransaction(h) ==
  /\ handlers[h].pc = "save"
  /\ transactions' = saveTransaction(Db, handlers[h].transaction).transactions
  /\ handlers' = [handlers EXCEPT ![h].pc = "station"]
  /\ UNCHANGED <<consumptions, connectors, lastTransactionID, cdrPushes, locks, lastSeen, now, stationVars, restVars>>

\* the rest of updateConnectorStatus: the new status on the handler's station
\* object, which is saved
CdrSaveStation(h) ==
  /\ handlers[h].pc = "station"
  /\ LET k == getConnectorFromID(handlers[h].connectors, handlers[h].request.connectorId)
     IN connectors' = [handlers[h].connectors EXCEPT
                         ![k].status = handlers[h].request.status]
  /\ lastSeen' = now
  /\ handlers' = [handlers EXCEPT ![h].pc = "done", ![h].response = "{}"]
  /\ UNCHANGED <<transactions, consumptions, lastTransactionID, cdrPushes, locks, now, stationVars, restVars>>

NextCdr ==
  \E h \in Handlers :
    \/ CdrLoad(h)
    \/ CdrExtraInactivity(h)
    \/ CdrAcquireLock(h)
    \/ CdrPush(h)
    \/ CdrReleaseLock(h)
    \/ CdrSaveTransaction(h)
    \/ CdrSaveStation(h)

SpecCdr == InitCdr /\ [][NextCdr]_vars

\* ------------------ two stations authorizing a tag and starting a transaction
\* Each station has one connector; the connector of station h is written h.
\* Each await of handleStartTransaction is a point where the other handler may run.
AuthorizeTags ==
  {NullTag, StringTag(""), StringTag(ValidTag), StringTag(InvalidTag),
   IntegerTag(NumberTag), StringTag(ToString(NumberTag)),
   StringTag(RoamingTag), StringTag(RoamingTagNoAuthorization), StringTag(UnknownTag)}

AuthorizeRequests == [idTag : AuthorizeTags, public : BOOLEAN]

\* the storage once both stations have reported their connector
StationsReported ==
  handleStatusNotification(
    handleStatusNotification(EmptyDb,
      [connectorId |-> 1, status |-> "Available", timestamp |-> 0,
       errorCode |-> "NoError", info |-> "Info"]).db,
    [connectorId |-> 2, status |-> "Available", timestamp |-> 0,
     errorCode |-> "NoError", info |-> "Info"]).db

InitStart ==
  /\ SetDb(StationsReported)
  /\ handlers = [h \in Handlers |-> IdleHandler]
  /\ locks = {}

\* handleAuthorize; a station whose tag is accepted goes on to start a transaction
StartAuthorize(h) ==
  /\ handlers[h].pc = "idle"
  /\ \E authorize \in AuthorizeRequests :
       LET r == handleAuthorize(Db, authorize)
       IN handlers' = [handlers EXCEPT
            ![h].request.idTag = authorize.idTag,
            ![h].authorize = r.status,
            ![h].pc = IF r.status = "Accepted" THEN "start" ELSE "done"]
  /\ UNCHANGED <<transactions, consumptions, connectors, lastTransactionID, cdrPushes,
                 locks, lastSeen, now, stationVars, restVars>>

\* handleStartTransaction up to stopOrDeleteActiveTransactions
StartCleanup(h) ==
  /\ handlers[h].pc = "start"
  /\ \E meterStart \in Meters :
       LET startTransaction ==
             [IdleHandler.request EXCEPT
                !.connectorId = h, !.idTag = handlers[h].request.idTag,
                !.meterStart = meterStart,
                !.roaming = ~getUserByTagId(tagText(handlers[h].request.idTag)).issuer]
           db == stopOrDeleteActiveTransactions(Db, h)
       IN /\ validateStartTransaction(startTransaction)
          /\ SetDbNext(db)
          /\ handlers' = [handlers EXCEPT
               ![h].request = startTransaction,
               ![h].connectors = connectors,
               ![h].pc = "allocate"]
  /\ UNCHANGED locks

\* findAvailableID and the transaction object
StartAllocate(h) ==
  /\ handlers[h].pc = "allocate"
  /\ handlers' = [handlers EXCEPT
       ![h].transaction = newTransaction(findAvailableID(Db), handlers[h].request),
       ![h].pc = "price"]
  /\ UNCHANGED <<transactions, consumptions, connectors, lastTransactionID, cdrPushes,
                 locks, lastSeen, now, stationVars, restVars>>

\* priceTransaction, billTransaction and the roaming session push
StartPrice(h) ==
  /\ handlers[h].pc = "price"
  /\ handlers' = [handlers EXCEPT ![h].pc = "saveTransaction"]
  /\ UNCHANGED <<transactions, consumptions, connectors, lastTransactionID, cdrPushes,
                 locks, lastSeen, now, stationVars, restVars>>

\* saveTransaction
StartSaveTransaction(h) ==
  /\ handlers[h].pc = "saveTransaction"
  /\ SetDbNext([saveTransaction(Db, handlers[h].transaction) EXCEPT
                  !.lastTransactionID = Max(@, handlers[h].transaction.id)])
  /\ handlers' = [handlers EXCEPT ![h].pc = "saveStation"]
  /\ UNCHANGED locks

\* the connector's live fields on the handler's station object, which is saved;
\* then the answer
StartSaveStation(h) ==
  /\ handlers[h].pc = "saveStation"
  /\ LET k == getConnectorFromID(connectors, h)
         conns == startOnConnector(handlers[h].connectors, handlers[h].transaction)
     IN connectors' = [connectors EXCEPT ![k] = conns[k]]
  /\ lastSeen' = now
  /\ handlers' = [handlers EXCEPT ![h].pc = "done", ![h].response = "Accepted",
                                  ![h].saved = handlers[h].transaction.id]
  /\ UNCHANGED <<transactions, consumptions, lastTransactionID, cdrPushes, locks, now, stationVars, restVars>>

\* an exception after findAvailableID (pricing, billing, roaming, a save): the
\* catch block answers Invalid
StartFail(h) ==
  /\ handlers[h].pc \in {"price", "saveTransaction", "saveStation"}
  /\ handlers' = [handlers EXCEPT ![h].pc = "done", ![h].response = "Invalid"]
  /\ UNCHANGED <<transactions, consumptions, connectors, lastTransactionID, cdrPushes,
                 locks, lastSeen, now, stationVars, restVars>>

NextStart ==
  \E h \in Handlers :
    \/ StartAuthorize(h)
    \/ StartCleanup(h)
    \/ StartAllocate(h)
    \/ StartPrice(h)
    \/ StartSaveTransaction(h)
    \/ StartSaveStation(h)
    \/ StartFail(h)

SpecStart == InitStart /\ [][NextStart]_vars

\* ------------------- meter values of a station that sends Transaction.End values
MaxEndMeterValues == 3
MaxNow == 1

EndContexts == {"Sample.Periodic", "Transaction.End"}

\* the storage once a transaction was started on connector 1
StartedDbs ==
  {handleStartTransaction(ConnectorReported, startTransaction, TRUE).db :
     startTransaction \in {r \in StartTransactionRequests :
                           r.connectorId = 1 /\ r.idTag \in StartTags}}

InitEnd ==
  /\ \E db \in StartedDbs : SetDb(db)
  /\ handlers = [h \in Handlers |-> IdleHandler]
  /\ locks = {}

EndMeterValuesRequests ==
  [transactionId : 0..MaxTx,
   values : SeqsUpTo([timestamp : Times, value : Meters, context : EndContexts,
                     measurand : {EnergyActiveImportRegister}], MaxBatch)]

MeterValuesEnd ==
  \E meterValues \in EndMeterValuesRequests :
    /\ numberOfMeterValues(Db, meterValues.transactionId) < MaxEndMeterValues
    /\ Commit(handleMeterValues(Db, meterValues))

\* the server clock advances between two messages
Tick ==
  /\ now < MaxNow
  /\ now' = now + 1
  /\ UNCHANGED <<transactions, consumptions, connectors, lastTransactionID, cdrPushes,
                 handlers, locks, lastSeen, stationVars, restVars>>

\* stops with and without transactionData, from stations of either OCPP version
EndStopTransactionRequests ==
  [transactionId : 0..MaxTx, meterStop : Meters, timestamp : Times, idTag : {NullTag},
   transactionData : TransactionDataShapes, ocppVersion : OcppVersions]

StopTransactionEnd ==
  \E stopTransaction \in EndStopTransactionRequests, authorized \in BOOLEAN :
    Commit(handleStopTransaction(Db, stopTransaction, FALSE, FALSE, authorized))

NextEnd ==
  \/ MeterValuesEnd
  \/ StopTransactionEnd
  \/ Tick

SpecEnd == InitEnd /\ [][NextEnd]_vars

\* ------------------------------------------------------- BootNotification
MaxBoots == 2

\* RegistrationTokenStorage: the tokens of the tenant, by name
NoToken == ""
NoRegistrationToken == [token |-> NoToken, expirationDate |-> NoDate, revocationDate |-> NoDate]

RegistrationTokens ==
  {[token |-> "TOKEN-VALID", expirationDate |-> MaxNow + 1, revocationDate |-> NoDate],
   [token |-> "TOKEN-EXPIRES", expirationDate |-> 0, revocationDate |-> NoDate],
   [token |-> "TOKEN-NO-EXPIRATION", expirationDate |-> NoDate, revocationDate |-> NoDate],
   [token |-> "TOKEN-REVOKED", expirationDate |-> MaxNow + 1, revocationDate |-> 0],
   [token |-> "TOKEN-REVOKED-LATER", expirationDate |-> MaxNow + 1,
    revocationDate |-> MaxNow + 1]}

getRegistrationToken(token) ==
  IF \E t \in RegistrationTokens : t.token = token
  THEN CHOOSE t \in RegistrationTokens : t.token = token
  ELSE NoRegistrationToken

\* moment().isAfter(date); for a date that is not set, moment(undefined) is the
\* present instant, which the present instant is not after
isAfter(instant, date) == IF date = NoDate THEN FALSE ELSE instant > date

BootAnswer(db, status, currentTime, error) ==
  [db |-> db, status |-> status, currentTime |-> currentTime, error |-> error]

\* the serial numbers are compared even when one of them is not given
AttributeMismatch_AnySerial(stored, bootNotification) ==
  \/ stored.chargePointVendor # bootNotification.chargePointVendor
  \/ stored.chargePointModel # bootNotification.chargePointModel
  \/ stored.chargePointSerialNumber # bootNotification.chargePointSerialNumber

\* the existing station is not the one that boots: vendor or model differ, or both
\* serial numbers are given and differ
AttributeMismatch(stored, bootNotification) ==
  \/ stored.chargePointVendor # bootNotification.chargePointVendor
  \/ stored.chargePointModel # bootNotification.chargePointModel
  \/ /\ stored.chargePointSerialNumber # ""
     /\ bootNotification.chargePointSerialNumber # ""
     /\ stored.chargePointSerialNumber # bootNotification.chargePointSerialNumber

\* New Charging Station: Create
createChargingStation(headers, bootNotification, lastReboot) ==
  [id |-> headers.chargeBoxIdentity,
   chargePointVendor |-> bootNotification.chargePointVendor,
   chargePointModel |-> bootNotification.chargePointModel,
   chargePointSerialNumber |-> bootNotification.chargePointSerialNumber,
   firmwareVersion |-> bootNotification.firmwareVersion,
   lastReboot |-> lastReboot,
   registrationStatus |-> "Accepted", issuer |-> TRUE, deleted |-> FALSE]

\* the reboot date of the station is left as it was
updateChargingStation_NoReboot(stored, bootNotification, lastReboot) ==
  [stored EXCEPT
     !.chargePointSerialNumber = bootNotification.chargePointSerialNumber,
     !.firmwareVersion = bootNotification.firmwareVersion,
     !.registrationStatus = "Accepted",
     !.deleted = FALSE]

\* Existing Charging Station: Update
updateChargingStation(stored, bootNotification, lastReboot) ==
  [stored EXCEPT
     !.chargePointSerialNumber = bootNotification.chargePointSerialNumber,
     !.firmwareVersion = bootNotification.firmwareVersion,
     !.lastReboot = lastReboot,
     !.registrationStatus = "Accepted",
     !.deleted = FALSE]

\* ChargingStationStorage.saveChargingStation of the booted station
saveBootedChargingStation(db, station, lastSeenDate) ==
  [db EXCEPT !.chargingStation = station, !.lastSeen = lastSeenDate]

\* OCPPUtils.applyTemplateToChargingStation: a station the template changes is
\* saved by the template application
applyTemplateToChargingStation(db, station, lastSeenDate, template) ==
  IF template = "updated" THEN saveBootedChargingStation(db, station, lastSeenDate) ELSE db

saveBootNotification(db, bootNotification, lastReboot) ==
  [db EXCEPT !.bootNotifications =
     Append(@, [chargePointVendor |-> bootNotification.chargePointVendor,
                chargePointModel |-> bootNotification.chargePointModel,
                chargePointSerialNumber |-> bootNotification.chargePointSerialNumber,
                firmwareVersion |-> bootNotification.firmwareVersion,
                timestamp |-> lastReboot])]

\* what the station put under `timestamp` in its payload: nothing, or a text
\* (a parsed payload holds no Date)
PayloadTimestamps == {"undefined", "string"}

\* the catch block while bootNotification.timestamp is still what the station
\* sent: the response is built with bootNotification.timestamp.toISOString()
\* when the property is truthy, with the server clock otherwise; a text has
\* no toISOString and the call raises a TypeError out of the handler
BootCatch(db, bootNotification, error) ==
  IF bootNotification.timestamp = "undefined"
  THEN BootAnswer(db, "Rejected", db.now, error)
  ELSE BootAnswer(db, "Thrown", db.now, "TypeError")

\* the exceptions the environment raises in handleBootNotification, and the
\* outcomes of the template application
BootFailures == {"none", "validation", "tenant", "saveChargingStation", "saveBootNotification"}
Templates == {"none", "updated", "fails"}

handleBootNotification(db, headers, bootNotification, template, failure) ==
  LET lastReboot == db.now
      stored == db.chargingStation
      token == getRegistrationToken(headers.token)
      station == IF stored = NoChargingStation
                 THEN createChargingStation(headers, bootNotification, lastReboot)
                 ELSE updateChargingStation(stored, bootNotification, lastReboot)
      db1 == applyTemplateToChargingStation(db, station, lastReboot, template)
      db2 == IF template = "updated" THEN db1
             ELSE saveBootedChargingStation(db1, station, lastReboot)
  IN IF failure = "validation"
     THEN BootCatch(db, bootNotification, "InvalidPayload")
     ELSE IF failure = "tenant"
     THEN BootCatch(db, bootNotification, "TenantNotFound")
     ELSE IF stored = NoChargingStation /\ headers.token = NoToken
     THEN BootAnswer(db, "Rejected", lastReboot, "TokenRequired")
     ELSE IF /\ stored = NoChargingStation
             /\ \/ token = NoRegistrationToken
                \/ token.expirationDate = NoDate
                \/ isAfter(db.now, token.expirationDate)
     THEN BootAnswer(db, "Rejected", lastReboot, "TokenInvalid")
     ELSE IF /\ stored = NoChargingStation
             /\ (token.revocationDate # NoDate \/ isAfter(db.now, token.revocationDate))
     THEN BootAnswer(db, "Rejected", lastReboot, "TokenRevoked")
     ELSE IF stored # NoChargingStation /\ AttributeMismatch(stored, bootNotification)
     THEN BootAnswer(db, "Rejected", lastReboot, "AttributeMismatch")
     ELSE IF template = "fails"
     THEN BootAnswer(db, "Rejected", lastReboot, "Template")
     ELSE IF template # "updated" /\ failure = "saveChargingStation"
     THEN BootAnswer(db1, "Rejected", lastReboot, "Storage")
     ELSE IF failure = "saveBootNotification"
     THEN BootAnswer(db2, "Rejected", lastReboot, "Storage")
     ELSE BootAnswer(saveBootNotification(db2, bootNotification, lastReboot),
                     "Accepted", lastReboot, "none")

Vendors == {"Schneider", "ABB"}
Models == {"EVlink"}
SerialNumbers == {"", "SN-1", "SN-2"}
FirmwareVersions == {"1.0", "1.1"}

BootNotificationRequests ==
  [chargePointVendor : Vendors, chargePointModel : Models,
   chargePointSerialNumber : SerialNumbers, firmwareVersion : FirmwareVersions,
   timestamp : PayloadTimestamps]

BootHeaders ==
  [chargeBoxIdentity : {"CS-1"},
   token : {NoToken, "TOKEN-UNKNOWN"} \cup {t.token : t \in RegistrationTokens}]

\* the station is unknown, registered, registered without a serial number, or
\* was deleted
BootStations ==
  {NoChargingStation, RegisteredChargingStation,
   [RegisteredChargingStation EXCEPT !.chargePointSerialNumber = ""],
   [RegisteredChargingStation EXCEPT !.deleted = TRUE]}

InitBoot ==
  /\ \E station \in BootStations : SetDb([EmptyDb EXCEPT !.chargingStation = station])
  /\ handlers = [h \in Handlers |-> IdleHandler]
  /\ locks = {}

BootNotification ==
  \E headers \in BootHeaders, bootNotification \in BootNotificationRequests,
     template \in Templates, failure \in BootFailures :
    /\ Len(bootNotifications) < MaxBoots
    /\ Commit(handleBootNotification(Db, headers, bootNotification, template, failure))

NextBoot ==
  \/ BootNotification
  \/ Tick

SpecBoot == InitBoot /\ [][NextBoot]_vars

\* ----------------------------------------------------------------------
\* Meter values of one started transaction that carry energy and SoC
\* readings, under each configuration of the two notifications
MaxNotifyMeterValues == 3

StatesOfCharge == {90, 100}

NotificationConfigs ==
  [notifEndOfChargeEnabled : BOOLEAN, notifBeforeEndOfChargeEnabled : BOOLEAN,
   notifBeforeEndOfChargePercent : {OptimalChargePercent}]

NotifyMeterValueSet ==
  [timestamp : Times, value : Meters, context : {"Sample.Periodic"},
   measurand : {EnergyActiveImportRegister}]
  \cup [timestamp : Times, value : StatesOfCharge,
        context : {"Sample.Periodic", "Transaction.End"}, measurand : {StateOfCharge}]

NotifyMeterValuesRequests ==
  [transactionId : 0..1, values : SeqsUpTo(NotifyMeterValueSet, 2)]

\* a transaction started at instant 0 with the meter at 0
NotifyDbs ==
  {db \in StartedDbs : db.transactions[1].meterStart = 0 /\ db.transactions[1].timestamp = 0}

InitNotify ==
  /\ \E db \in NotifyDbs, config \in NotificationConfigs :
       SetDb([db EXCEPT !.chargingStationConfig = config])
  /\ handlers = [h \in Handlers |-> IdleHandler]
  /\ locks = {}

MeterValuesNotify ==
  \E meterValues \in NotifyMeterValuesRequests :
    /\ numberOfMeterValues(Db, meterValues.transactionId) < MaxNotifyMeterValues
    /\ Commit(handleMeterValues(Db, meterValues))

NextNotify ==
  \/ MeterValuesNotify
  \/ Tick

SpecNotify == InitNotify /\ [][NextNotify]_vars

\* ----------------------------------------------------------------------
\* stopOrDeleteActiveTransactions turn by turn, on storages that hold open and
\* stopped transactions, with and without consumption, on the connector and
\* on another one; handlers[1].request holds connectorId and
\* lastCheckedTransactionID (as transactionId)
PendingTransactionShapes ==
  [connectorId : {1, 2}, currentTotalConsumptionWh : Meters, stopped : BOOLEAN]

PendingTransaction(id, shape) ==
  [newTransaction(id, [connectorId |-> shape.connectorId, meterStart |-> 0,
                       timestamp |-> 0, idTag |-> StringTag(ValidTag), roaming |-> FALSE])
     EXCEPT !.currentTotalConsumptionWh = shape.currentTotalConsumptionWh,
            !.lastConsumption = [value |-> shape.currentTotalConsumptionWh, timestamp |-> 0],
            !.stop = [NoStop EXCEPT !.set = shape.stopped]]

CleanupDbs ==
  {[ConnectorReported EXCEPT
      !.transactions = [id \in 1..MaxTx |-> PendingTransaction(id, shapes[id])],
      !.consumptions = [id \in 1..MaxTx |-> <<>>],
      !.cdrPushes = [id \in 1..MaxTx |-> 0],
      !.lastTransactionID = MaxTx] :
     shapes \in [1..MaxTx -> PendingTransactionShapes]}

InitCleanup ==
  /\ \E db \in CleanupDbs : SetDb(db)
  /\ handlers = [h \in Handlers |->
                  IF h = 1 THEN [IdleHandler EXCEPT !.pc = "loop", !.request.connectorId = 1]
                  ELSE IdleHandler]
  /\ locks = {}

\* no active transaction, or the one handled last: the loop is left
CleanupReturn ==
  LET activeTransaction == getActiveTransaction(Db, handlers[1].request.connectorId)
  IN /\ handlers[1].pc = "loop"
     /\ \/ activeTransaction = 0
        \/ AvoidInfiniteLoop(handlers[1].request.transactionId, activeTransaction)
     /\ handlers' = [handlers EXCEPT ![1].pc = "done"]
     /\ UNCHANGED <<transactions, consumptions, connectors, lastTransactionID, cdrPushes,
                    locks, lastSeen, now, stationVars, restVars>>

\* No consumption: delete; a delete that fails leaves the loop by its exception
CleanupDelete ==
  LET activeTransaction == getActiveTransaction(Db, handlers[1].request.connectorId)
  IN /\ handlers[1].pc = "loop"
     /\ activeTransaction # 0
     /\ ~AvoidInfiniteLoop(handlers[1].request.transactionId, activeTransaction)
     /\ transactions[activeTransaction].currentTotalConsumptionWh <= 0
     /\ \/ /\ SetDbNext(deleteTransaction(Db, activeTransaction))
           /\ handlers' = [handlers EXCEPT ![1].request.transactionId = activeTransaction]
        \/ /\ handlers' = [handlers EXCEPT ![1].pc = "done", ![1].response = "Thrown"]
           /\ UNCHANGED <<transactions, consumptions, connectors, lastTransactionID,
                          cdrPushes, lastSeen, now, stationVars, restVars>>
     /\ UNCHANGED locks

\* Simulate a Stop Transaction: the stop is handled, or an exception in it is
\* caught and it answers Invalid with nothing saved
CleanupStop ==
  LET activeTransaction == getActiveTransaction(Db, handlers[1].request.connectorId)
  IN /\ handlers[1].pc = "loop"
     /\ activeTransaction # 0
     /\ ~AvoidInfiniteLoop(handlers[1].request.transactionId, activeTransaction)
     /\ transactions[activeTransaction].currentTotalConsumptionWh > 0
     /\ \E result \in {simulateStopTransaction(Db, activeTransaction),
                       Answer(Db, "Invalid", 0, "Exception")} :
          /\ SetDbNext(result.db)
          /\ handlers' = [handlers EXCEPT ![1].request.transactionId = activeTransaction,
                                          ![1].response = result.status]
     /\ UNCHANGED locks

NextCleanup ==
  \/ CleanupReturn
  \/ CleanupDelete
  \/ CleanupStop

SpecCleanup == InitCleanup /\ [][NextCleanup]_vars /\ WF_vars(NextCleanup)

\* ----------------------------------------------------------------------
\* StopTransaction with and without a tag of its own, on a transaction that
\* the central system has or has not asked to stop, a minute ago or just now
RemoteStops ==
  {NoRemoteStop} \cup
  [set : {TRUE}, timestamp : {0 - RemoteStopSecs, 1 - RemoteStopSecs, 0},
   tagID : {"REMOTE"}]

TagStopTransactionRequests ==
  [transactionId : {1}, meterStop : Meters, timestamp : Times,
   idTag : {NullTag, StringTag(""), StringTag("STOPPER")},
   transactionData : {NoTransactionData}, ocppVersion : {"1.6"}]

InitTag ==
  /\ \E db \in StartedDbs, remotestop \in RemoteStops :
       SetDb([db EXCEPT !.transactions[1].remotestop = remotestop])
  /\ handlers = [h \in Handlers |-> IdleHandler]
  /\ locks = {}

StopTransactionTag ==
  \E stopTransaction \in TagStopTransactionRequests, authorized \in BOOLEAN :
    Commit(handleStopTransaction(Db, stopTransaction, FALSE, FALSE, authorized))

NextTag ==
  \/ StopTransactionTag
  \/ Tick

SpecTag == InitTag /\ [][NextTag]_vars

\* ----------------------------------------------------------------------
\* A station that reports its connectors in any order, with and without
\* errorCode and info, while a transaction may be running on connector 1
MaxStatusConnector == 2

AnyStatusNotificationRequests ==
  [connectorId : 1..MaxStatusConnector, status : Statuses, timestamp : {0},
   errorCode : {"NoError"}, info : {Undefined, "", "Info"}]

InitStatus ==
  /\ \E db \in {EmptyDb} \cup NotifyDbs : SetDb(db)
  /\ handlers = [h \in Handlers |-> IdleHandler]
  /\ locks = {}

AnyStatusNotification ==
  \E statusNotification \in AnyStatusNotificationRequests :
    Commit(handleStatusNotification(Db, statusNotification))

NextStatus ==
  \/ AnyStatusNotification
  \/ Tick

SpecStatus == InitStatus /\ [][NextStatus]_vars

\* ================================================================ properties
IsOpen(id) == id \in DOMAIN transactions /\ ~transactions[id].stop.set
IsStopped(id) == id \in DOMAIN transactions /\ transactions[id].stop.set

\* the rows of the session itself: those that end no later than the stop
SessionRows(id) ==
  SelectSeq(consumptions[id], LAMBDA c : c.endedAt <= transactions[id].stop.timestamp)

RECURSIVE SumConsumptionWh(_)
SumConsumptionWh(rows) ==
  IF rows = <<>> THEN 0 ELSE Head(rows).consumptionWh + SumConsumptionWh(Tail(rows))

\* seconds of the rows with (idle = TRUE) zero or (idle = FALSE) non-zero consumption
RECURSIVE IntervalSecs(_, _)
IntervalSecs(rows, idle) ==
  IF rows = <<>> THEN 0
  ELSE (IF (Head(rows).consumptionWh = 0) = idle
        THEN Head(rows).endedAt - Head(rows).startedAt ELSE 0)
       + IntervalSecs(Tail(rows), idle)

\* C1: after any sequence of StartTransaction, MeterValues, StopTransaction and
\* StatusNotification messages every connector has at most one open transaction.
C1_AtMostOneOpenTransaction ==
  \A connectorId \in ConnectorIds : Cardinality(OpenOn(Db, connectorId)) <= 1

\* C2: a StopTransaction for a transaction whose stop block is already set is
\* answered Invalid and changes nothing in the transactions, the consumptions
\* or the connectors.
C2_StopOfStoppedIsInvalid ==
  \A stopTransaction \in StopTransactionRequests, authorized \in BOOLEAN :
    IsStopped(stopTransaction.transactionId) =>
      LET r == handleStopTransaction(Db, stopTransaction, FALSE, FALSE, authorized)
      IN r.status = "Invalid" /\ r.db = Db

\* a stopped transaction whose connector already carries the next transaction,
\* and a stop for it from an authorized tag is refused as already stopped
C2_Witness ==
  \E stopTransaction \in StopTransactionRequests :
    /\ IsStopped(stopTransaction.transactionId)
    /\ \E k \in 1..Len(connectors) :
         /\ connectors[k].connectorId = transactions[stopTransaction.transactionId].connectorId
         /\ connectors[k].currentTransactionID > 0
    /\ handleStopTransaction(Db, stopTransaction, FALSE, FALSE, TRUE).error = "AlreadyStopped"

\* C3: when two handlers stop the same open transaction, in any interleaving, the
\* stop block is written by one of them only, one closing consumption is saved in
\* all, and the other handler answers Invalid.
C3_StoppedExactlyOnce ==
  LET wrote == {h \in Handlers : /\ handlers[h].pc = "done"
                                 /\ handlers[h].response = "Accepted"
                                 /\ handlers[h].transaction.stop.set}
  IN /\ Cardinality(wrote) <= 1
     /\ handlers[1].saved + handlers[2].saved <= 1

\* C4: when two handlers of an Available notification for the same finished roaming
\* transaction run concurrently, the roaming platform receives its CDR once.
C4_CdrPushedOnce ==
  \A id \in DOMAIN cdrPushes : cdrPushes[id] <= 1

\* C5: once stop.extraInactivityComputed is true, no StatusNotification changes the
\* stop block (extraInactivitySecs, inactivityStatus) or adds a consumption record.
C5_ExtraInactivityOnce ==
  \A id \in DOMAIN transactions, statusNotification \in StatusNotificationRequests :
    (IsStopped(id) /\ transactions[id].stop.extraInactivityComputed) =>
      LET r == handleStatusNotification(Db, statusNotification)
      IN /\ r.db.transactions[id].stop = transactions[id].stop
         /\ r.db.consumptions[id] = consumptions[id]

\* extra inactivity was computed and recorded, the connector has left Available, and
\* an Available notification with another timestamp is taken as a change of status
C5_Witness ==
  \E id \in DOMAIN transactions, statusNotification \in StatusNotificationRequests :
    /\ IsStopped(id)
    /\ transactions[id].stop.extraInactivityComputed
    /\ transactions[id].stop.extraInactivitySecs > 0
    /\ statusNotification.status = "Available"
    /\ statusNotification.connectorId = transactions[id].connectorId
    /\ getLastTransactionFromChargingStation(Db, statusNotification.connectorId) = id
    /\ statusNotification.timestamp - transactions[id].stop.timestamp
         # transactions[id].stop.extraInactivitySecs
    /\ handleStatusNotification(Db, statusNotification).error # "NoChange"

\* the connector of the transaction shows the transaction's running total
ConnectorMirrors(db, transaction) ==
  LET k == getConnectorFromID(db.connectors, transaction.connectorId)
  IN k # 0 => db.connectors[k].currentTotalConsumptionWh
               = transaction.currentTotalConsumptionWh

RECURSIVE LastTaken(_, _, _)
LastTaken(anchorTimestamp, values, last) ==
  IF values = <<>> THEN last
  ELSE IF Head(values).timestamp > anchorTimestamp
  THEN LastTaken(Head(values).timestamp, Tail(values), Head(values).value)
  ELSE LastTaken(anchorTimestamp, Tail(values), last)

NonDecreasing(rows) ==
  \A k \in 1..Len(rows) :
    rows[k].cumulatedConsumptionWh
      >= (IF k = 1 THEN 0 ELSE rows[k - 1].cumulatedConsumptionWh)

InactivityGrowsByIdleIntervals ==
  \A meterValues \in MeterValuesRequests :
    IsOpen(meterValues.transactionId) =>
      LET id == meterValues.transactionId
          r == handleMeterValues(Db, meterValues)
      IN r.db.transactions[id].currentTotalInactivitySecs
           = transactions[id].currentTotalInactivitySecs
             + IntervalSecs(SubSeq(r.db.consumptions[id], Len(consumptions[id]) + 1,
                                   Len(r.db.consumptions[id])), TRUE)

ExtraInactivityAdded(id) ==
  IF /\ transactions[id].stop.extraInactivityComputed
     /\ transactions[id].stop.extraInactivitySecs > 0
  THEN transactions[id].stop.extraInactivitySecs ELSE 0

C9_ReplayAddsNoConsumption ==
  \A meterValues \in MeterValuesRequests :
    IsOpen(meterValues.transactionId) =>
      LET r1 == handleMeterValues(Db, meterValues)
          r2 == handleMeterValues(r1.db, meterValues)
      IN r2.db.consumptions = r1.db.consumptions

\* an open transaction that already has a consumption, and a payload whose first
\* handling adds another one
C9_Witness ==
  \E meterValues \in MeterValuesRequests :
    /\ IsOpen(meterValues.transactionId)
    /\ Len(consumptions[meterValues.transactionId]) >= 1
    /\ Len(handleMeterValues(Db, meterValues).db.consumptions[meterValues.transactionId])
         > Len(consumptions[meterValues.transactionId])

\* C10: a MeterValues call carrying only Sample.Clock values, received during a
\* transaction, yields no consumption record.
C10_ClockYieldsNoConsumption ==
  \A meterValues \in MeterValuesRequests :
    (/\ IsOpen(meterValues.transactionId)
     /\ \A k \in 1..Len(meterValues.values) :
          meterValues.values[k].context = "Sample.Clock") =>
      handleMeterValues(Db, meterValues).db.consumptions = consumptions

\* C11: once transactionEndReceived is true, a later MeterValues call for the
\* transaction is answered {} but saves no consumption and leaves the running
\* consumption and inactivity totals of the transaction as they were.
C11_NoConsumptionAfterTransactionEnd ==
  \A id \in DOMAIN transactions : \A meterValues \in EndMeterValuesRequests :
    (transactions[id].transactionEndReceived /\ meterValues.transactionId = id) =>
      LET r == handleMeterValues(Db, meterValues)
      IN /\ r.status = "{}"
         /\ r.db.consumptions = consumptions
         /\ r.db.transactions[id].currentTotalConsumptionWh =
              transactions[id].currentTotalConsumptionWh
         /\ r.db.transactions[id].currentTotalInactivitySecs =
              transactions[id].currentTotalInactivitySecs

\* C12: for every stopped transaction, each cumulative reading taken during the
\* session lies between meterStart and stop.meterStop.
C12_ReadingsBetweenStartAndStop ==
  \A id \in DOMAIN transactions :
    IsStopped(id) =>
      /\ transactions[id].meterStart <= transactions[id].stop.meterStop
      /\ \A k \in 1..Len(SessionRows(id)) :
           LET reading == SessionRows(id)[k].cumulatedConsumptionWh
                          + transactions[id].meterStart
           IN /\ transactions[id].meterStart <= reading
              /\ reading <= transactions[id].stop.meterStop

\* C13: an Available notification that changes the status of a connector with
\* currentTransactionID > 0 deletes the connector's open transaction when it has
\* no consumption, stops it at its last reading otherwise, and leaves the saved
\* connector with currentTransactionID = 0.
C13_AvailableStopsOrDeletesOngoing ==
  \A statusNotification \in StatusNotificationRequests :
    LET k == getConnectorFromID(connectors, statusNotification.connectorId)
        r == handleStatusNotification(Db, statusNotification)
    IN (/\ statusNotification.status = "Available"
        /\ k > 0
        /\ connectors[k].status # "Available"
        /\ connectors[k].currentTransactionID > 0) =>
         /\ r.db.connectors[k].currentTransactionID = 0
         /\ \A id \in OpenOn(Db, statusNotification.connectorId) :
              IF transactions[id].currentTotalConsumptionWh <= 0
              THEN id \notin DOMAIN r.db.transactions
              ELSE /\ id \in DOMAIN r.db.transactions
                   /\ r.db.transactions[id].stop.set
                   /\ r.db.transactions[id].stop.meterStop =
                        transactions[id].lastConsumption.value

\* C14: a StartTransaction that fails after its transaction id was allocated is
\* answered Invalid and leaves no transaction with that id in the storage and
\* no connector that refers to it (no other handler being under way).
C14_FailedStartRolledBack ==
  \A h \in Handlers :
    (/\ handlers[h].pc = "done"
     /\ handlers[h].response = "Invalid"
     /\ handlers[h].transaction.id > 0
     /\ \A g \in Handlers \ {h} : handlers[g].pc = "idle") =>
      /\ handlers[h].transaction.id \notin DOMAIN transactions
      /\ \A k \in 1..Len(connectors) :
           connectors[k].currentTransactionID # handlers[h].transaction.id

\* the transaction an accepted StartTransaction leaves in the storage
StartedTransaction(answer, startTransaction) ==
  /\ answer.transactionId # 0
  /\ answer.transactionId \in DOMAIN answer.db.transactions
  /\ LET transaction == answer.db.transactions[answer.transactionId]
     IN /\ transaction.meterStart = startTransaction.meterStart
        /\ transaction.timestamp = startTransaction.timestamp
        /\ transaction.currentTotalConsumptionWh = 0
        /\ transaction.currentTotalInactivitySecs = 0
        /\ transaction.numberOfMeterValues = 0
        /\ ~transaction.stop.set

\* the live fields an accepted StartTransaction leaves on connector k
StartedConnector(answer, startTransaction, k) ==
  /\ answer.db.connectors[k].currentTransactionID = answer.transactionId
  /\ answer.db.connectors[k].currentTagID = tagText(startTransaction.idTag)
  /\ answer.db.connectors[k].currentTransactionDate = startTransaction.timestamp
  /\ answer.db.connectors[k].currentTotalConsumptionWh = 0

\* C15 as stated: after StartTransaction answers Accepted with transactionId T,
\* T is not zero, transaction T exists with the given meterStart and timestamp,
\* zero totals and numberOfMeterValues = 0, and the station has the connector
\* with currentTransactionID = T, the start tag, the start timestamp and zero
\* live totals.
C15_Original ==
  \A startTransaction \in StartTransactionRequests, authorized \in BOOLEAN :
    LET answer == handleStartTransaction(Db, startTransaction, authorized)
        k == getConnectorFromID(answer.db.connectors, startTransaction.connectorId)
    IN answer.status = "Accepted" =>
         /\ StartedTransaction(answer, startTransaction)
         /\ k # 0
         /\ StartedConnector(answer, startTransaction, k)

\* C15 (amended): after StartTransaction answers Accepted with transactionId T,
\* T is not zero and transaction T exists with the given meterStart and
\* timestamp, zero totals and numberOfMeterValues = 0; when the station has a
\* connector with the request's connectorId, that connector has
\* currentTransactionID = T, the start tag, the start timestamp and zero live
\* totals; when it has none, the connectors are left as they were.
C15_StartedTransactionAndConnector ==
  \A startTransaction \in StartTransactionRequests, authorized \in BOOLEAN :
    LET answer == handleStartTransaction(Db, startTransaction, authorized)
        k == getConnectorFromID(Db.connectors, startTransaction.connectorId)
    IN answer.status = "Accepted" =>
         /\ StartedTransaction(answer, startTransaction)
         /\ k # 0 => StartedConnector(answer, startTransaction, k)
         /\ k = 0 => answer.db.connectors = Db.connectors

\* a StartTransaction was accepted on a connector the station has: the
\* connector carries the transaction, which has counted no meter value yet
C15_Witness ==
  \E k \in 1..Len(connectors) :
    /\ connectors[k].currentTransactionID \in DOMAIN transactions
    /\ connectors[k].currentTransactionDate = 0
    /\ connectors[k].currentTagID = ToString(NumberTag)
    /\ transactions[connectors[k].currentTransactionID].numberOfMeterValues = 0
    /\ \E startTransaction \in StartTransactionRequests :
         /\ startTransaction.connectorId = connectors[k].connectorId
         /\ startTransaction.timestamp > 0
         /\ handleStartTransaction(Db, startTransaction, TRUE).status = "Accepted"

\* C16: two StartTransaction requests that were both answered Accepted never
\* carry the same transactionId, however the two handlers interleave.
C16_TransactionIdsUnique ==
  \A g, h \in Handlers :
    (g # h /\ handlers[g].response = "Accepted" /\ handlers[h].response = "Accepted") =>
      handlers[g].saved # handlers[h].saved

\* C17: StartTransaction with a tag longer than 20 characters, an empty tag or
\* a null tag is answered {transactionId: 0, status: Invalid}; it creates no
\* transaction, changes no connector, and neither stops nor deletes a
\* transaction that is open on the connector.
C17_InvalidTagStartChangesNothing ==
  \A startTransaction \in StartTransactionRequests, authorized \in BOOLEAN :
    startTransaction.idTag \in InvalidStartTags =>
      LET answer == handleStartTransaction(Db, startTransaction, authorized)
      IN /\ answer.status = "Invalid"
         /\ answer.transactionId = 0
         /\ answer.db.transactions = Db.transactions
         /\ answer.db.connectors = Db.connectors
         /\ answer.db.consumptions = Db.consumptions

\* a connector with an open transaction that has consumed energy, on which the
\* cleanup of a StartTransaction with a valid tag would act
C17_Witness ==
  \E id \in DOMAIN transactions, startTransaction \in StartTransactionRequests :
    /\ IsOpen(id)
    /\ transactions[id].currentTotalConsumptionWh > 0
    /\ startTransaction.connectorId = transactions[id].connectorId
    /\ startTransaction.idTag = StringTag(InvalidTag)
    /\ getConnectorFromID(connectors, startTransaction.connectorId) # 0
    /\ connectors[getConnectorFromID(connectors, startTransaction.connectorId)]
         .currentTransactionID = id
    /\ stopOrDeleteActiveTransactions(Db, startTransaction.connectorId) # Db

\* C18: Authorize answers Accepted for the known tag of exactly 20 characters
\* and for the known numeric tag, sent as a number or as its decimal text, and
\* Invalid for a tag of 21 or more characters, an empty tag and a null tag.
C18_AuthorizeByTag ==
  \A h \in Handlers :
    LET idTag == handlers[h].request.idTag
    IN handlers[h].authorize # "none" =>
         /\ (idTag.type = "string" /\ Len(idTag.text) = 20 /\ idTag.text = ValidTag)
              => handlers[h].authorize = "Accepted"
         /\ (idTag.type = "string" /\ Len(idTag.text) >= 21)
              => handlers[h].authorize = "Invalid"
         /\ (idTag.type = "string" /\ idTag.text = "") => handlers[h].authorize = "Invalid"
         /\ idTag.type = "null" => handlers[h].authorize = "Invalid"
         /\ idTag \in {IntegerTag(NumberTag), StringTag(ToString(NumberTag))}
              => handlers[h].authorize = "Accepted"

\* one station had the numeric tag accepted as a number, the other had the
\* 21-character tag refused
C18_Witness ==
  \E g, h \in Handlers :
    /\ handlers[g].request.idTag = IntegerTag(NumberTag)
    /\ handlers[g].authorize = "Accepted"
    /\ handlers[h].request.idTag = StringTag(InvalidTag)
    /\ handlers[h].authorize = "Invalid"

\* a transactionData whose shape is not the one of the station's OCPP version
WrongTransactionData(stopTransaction) ==
  /\ stopTransaction.transactionData # NoTransactionData
  /\ stopTransaction.transactionData # stopTransaction.ocppVersion

\* C19: a StopTransaction whose transactionData has not the shape of the
\* station's OCPP version is answered Invalid and leaves the open transaction
\* as it was, and the same stop sent again without transactionData is answered
\* Accepted and stops the transaction.
C19_WrongDataThenPlainStop ==
  \A stopTransaction \in EndStopTransactionRequests :
    (IsOpen(stopTransaction.transactionId) /\ WrongTransactionData(stopTransaction)) =>
      LET first == handleStopTransaction(Db, stopTransaction, FALSE, FALSE, TRUE)
          second == handleStopTransaction(first.db,
                      [stopTransaction EXCEPT !.transactionData = NoTransactionData],
                      FALSE, FALSE, TRUE)
      IN /\ first.status = "Invalid"
         /\ first.db = Db
         /\ second.status = "Accepted"
         /\ second.db.transactions[stopTransaction.transactionId].stop.set

\* the part of C19 that does not depend on the stop block: the first stop is
\* Invalid and changes nothing, the second one is Accepted
C19_WrongDataRefusedPlainAccepted ==
  \A stopTransaction \in EndStopTransactionRequests :
    (IsOpen(stopTransaction.transactionId) /\ WrongTransactionData(stopTransaction)) =>
      LET first == handleStopTransaction(Db, stopTransaction, FALSE, FALSE, TRUE)
          second == handleStopTransaction(first.db,
                      [stopTransaction EXCEPT !.transactionData = NoTransactionData],
                      FALSE, FALSE, TRUE)
      IN /\ first.status = "Invalid"
         /\ first.db = Db
         /\ second.status = "Accepted"

\* C20 as stated: a StopTransaction with transactionId 0 is answered Accepted
\* and leaves transactions, consumptions, connectors and the station, lastSeen
\* included, as they were.
C20_Original ==
  \A stopTransaction \in EndStopTransactionRequests, authorized \in BOOLEAN :
    stopTransaction.transactionId = 0 =>
      LET answer == handleStopTransaction(Db, stopTransaction, FALSE, FALSE, authorized)
      IN answer.status = "Accepted" /\ answer.db = Db

\* C20 (amended): a StopTransaction with transactionId 0 leaves transactions,
\* consumptions, connectors and the station, lastSeen included, as they were;
\* it is answered Accepted when its payload passes the validation, and Invalid
\* when its transactionData has not the shape of the station's OCPP version.
C20_TransactionIdZeroIgnored ==
  \A stopTransaction \in EndStopTransactionRequests, authorized \in BOOLEAN :
    stopTransaction.transactionId = 0 =>
      LET answer == handleStopTransaction(Db, stopTransaction, FALSE, FALSE, authorized)
      IN /\ answer.db = Db
         /\ answer.status =
              IF WrongTransactionData(stopTransaction) THEN "Invalid" ELSE "Accepted"

\* an open transaction with a consumption on a connector that carries it, and
\* a server clock that is ahead of the station's lastSeen
C20_Witness ==
  \E id \in DOMAIN transactions :
    /\ IsOpen(id)
    /\ Len(consumptions[id]) >= 1
    /\ \E k \in 1..Len(connectors) : connectors[k].currentTransactionID = id
    /\ now > lastSeen

\* C21: a BootNotification for an existing station is rejected exactly when the
\* reported vendor differs from the stored one, or the model differs, or both
\* the stored and the reported serial number are given and differ (no other
\* step of the handler failing); a boot that reaches the comparison with such a
\* difference is answered Rejected, none is accepted, and the stored station is
\* unchanged, and so is everything else.
C21_RejectedOnAttributeMismatch ==
  \A headers \in BootHeaders, bootNotification \in BootNotificationRequests,
     template \in Templates, failure \in BootFailures :
    chargingStation # NoChargingStation =>
      LET answer == handleBootNotification(Db, headers, bootNotification, template, failure)
          differs ==
            \/ bootNotification.chargePointVendor # chargingStation.chargePointVendor
            \/ bootNotification.chargePointModel # chargingStation.chargePointModel
            \/ /\ chargingStation.chargePointSerialNumber # ""
               /\ bootNotification.chargePointSerialNumber # ""
               /\ bootNotification.chargePointSerialNumber #
                    chargingStation.chargePointSerialNumber
      IN /\ differs => (answer.status # "Accepted" /\ answer.db = Db)
         /\ (differs /\ failure \notin {"validation", "tenant"}) =>
              answer.status = "Rejected"
         /\ (~differs /\ failure = "none" /\ template # "fails") =>
              answer.status = "Accepted"
         /\ (answer.error = "AttributeMismatch") => differs

\* a station that an accepted boot has given the serial number SN-2, for which
\* a boot with another serial number is rejected and one without is accepted
C21_Witness ==
  /\ Len(bootNotifications) >= 1
  /\ chargingStation.chargePointSerialNumber = "SN-2"
  /\ \E headers \in BootHeaders, bootNotification \in BootNotificationRequests :
       /\ bootNotification.chargePointSerialNumber = "SN-1"
       /\ handleBootNotification(Db, headers, bootNotification, "none", "none").error
            = "AttributeMismatch"
       /\ handleBootNotification(Db, headers,
            [bootNotification EXCEPT !.chargePointSerialNumber = ""], "none", "none").status
            = "Accepted"

\* C22: whenever handleBootNotification answers Rejected, whatever the step that
\* failed, nothing that is persisted has changed: no station was created or
\* updated and no boot record was stored.
C22_RejectedBootChangesNothing ==
  \A headers \in BootHeaders, bootNotification \in BootNotificationRequests,
     template \in Templates, failure \in BootFailures :
    LET answer == handleBootNotification(Db, headers, bootNotification, template, failure)
    IN answer.status = "Rejected" =>
         /\ answer.db.chargingStation = chargingStation
         /\ answer.db.lastSeen = lastSeen
         /\ answer.db.bootNotifications = bootNotifications

\* the part of C22 that holds: a boot rejected before the station is saved
\* (validation, tenant, token, attribute mismatch, template) changes nothing
C22_RejectedBeforeSaveChangesNothing ==
  \A headers \in BootHeaders, bootNotification \in BootNotificationRequests,
     template \in Templates, failure \in BootFailures :
    LET answer == handleBootNotification(Db, headers, bootNotification, template, failure)
    IN (answer.status = "Rejected" /\ answer.error # "Storage") => answer.db = Db

\* C23: a BootNotification for a station that is unknown creates the station,
\* with registrationStatus Accepted and issuer true, if the token of the header
\* exists, is not expired and is not revoked, expirationDate and revocationDate
\* being optional; it is rejected and no station is created when the token is
\* missing, unknown, expired or revoked. (No other step of the handler fails; a
\* token counts as revoked as soon as it has a revocationDate.)
C23_NewStationNeedsValidToken ==
  \A headers \in BootHeaders, bootNotification \in BootNotificationRequests :
    chargingStation = NoChargingStation =>
      LET answer == handleBootNotification(Db, headers, bootNotification, "none", "none")
          token == getRegistrationToken(headers.token)
          valid == /\ headers.token # NoToken
                   /\ token # NoRegistrationToken
                   /\ (token.expirationDate = NoDate \/ now <= token.expirationDate)
                   /\ token.revocationDate = NoDate
      IN IF valid
         THEN /\ answer.status = "Accepted"
              /\ answer.db.chargingStation.id = headers.chargeBoxIdentity
              /\ answer.db.chargingStation.registrationStatus = "Accepted"
              /\ answer.db.chargingStation.issuer
         ELSE /\ answer.status = "Rejected"
              /\ answer.db.chargingStation = NoChargingStation

\* the part of C23 that holds: with a token that has an expirationDate, the
\* station is created exactly when the token exists, is not expired and has no
\* revocationDate
C23_DatedTokenDecides ==
  \A headers \in BootHeaders, bootNotification \in BootNotificationRequests :
    (chargingStation = NoChargingStation
       /\ getRegistrationToken(headers.token).expirationDate # NoDate) =>
      LET answer == handleBootNotification(Db, headers, bootNotification, "none", "none")
          token == getRegistrationToken(headers.token)
      IN IF now <= token.expirationDate /\ token.revocationDate = NoDate
         THEN answer.status = "Accepted" /\ answer.db.chargingStation.issuer
         ELSE answer.status = "Rejected" /\ answer.db.chargingStation = NoChargingStation

\* the station fields a BootNotification may not change on a station it knows
SameStationButReboot(before, after) ==
  after = [before EXCEPT !.lastReboot = after.lastReboot,
                         !.firmwareVersion = after.firmwareVersion]

\* two identical boots of an existing station, the second one handled when the
\* server clock reads `later`: both are Accepted, the second changes nothing but
\* lastReboot, lastSeen and firmwareVersion, and each currentTime is the
\* lastReboot stored by its boot
TwoBootsAccepted(first, second) ==
  /\ first.status = "Accepted"
  /\ second.status = "Accepted"
  /\ SameStationButReboot(first.db.chargingStation, second.db.chargingStation)
  /\ second.db.connectors = first.db.connectors
  /\ second.db.transactions = first.db.transactions
  /\ first.currentTime = first.db.chargingStation.lastReboot
  /\ second.currentTime = second.db.chargingStation.lastReboot

C25_ConnectorZeroChangesNothing ==
  \A statusNotification \in StatusNotificationRequests :
    statusNotification.connectorId = 0 =>
      LET answer == handleStatusNotification(Db, statusNotification)
      IN answer.status = "{}" /\ answer.db = Db

\* connector 1 carries a transaction that has consumed energy, so that an
\* Available notification for connector 1 starts the recovery, while the same
\* notification for connector 0 is among the requests
C25_Witness ==
  \E statusNotification \in StatusNotificationRequests, k \in 1..Len(connectors) :
    /\ statusNotification.connectorId = 0
    /\ statusNotification.status = "Available"
    /\ connectors[k].connectorId = 1
    /\ connectors[k].status = "Charging"
    /\ IsOpen(connectors[k].currentTransactionID)
    /\ handleStatusNotification(Db, [statusNotification EXCEPT !.connectorId = 1]).db # Db

\* C26: when extra inactivity is computed for a stopped transaction,
\* stop.extraInactivitySecs is the timestamp of the Available notification less
\* stop.timestamp, and it is never negative, whatever timestamp the station
\* sends, one earlier than the stop included.
C26_ExtraInactivityNotNegative ==
  \A statusNotification \in StatusNotificationRequests :
    LET id == getLastTransactionFromChargingStation(Db, statusNotification.connectorId)
        answer == handleStatusNotification(Db, statusNotification)
    IN (/\ statusNotification.connectorId > 0
        /\ IsStopped(id)
        /\ ~transactions[id].stop.extraInactivityComputed
        /\ answer.db.transactions[id].stop.extraInactivityComputed) =>
         /\ answer.db.transactions[id].stop.extraInactivitySecs =
              statusNotification.timestamp - transactions[id].stop.timestamp
         /\ answer.db.transactions[id].stop.extraInactivitySecs >= 0

\* the part of C26 that holds: the extra inactivity is the difference of the two
\* timestamps
C26_ExtraInactivityIsDifference ==
  \A statusNotification \in StatusNotificationRequests :
    LET id == getLastTransactionFromChargingStation(Db, statusNotification.connectorId)
        answer == handleStatusNotification(Db, statusNotification)
    IN (/\ statusNotification.connectorId > 0
        /\ IsStopped(id)
        /\ ~transactions[id].stop.extraInactivityComputed
        /\ answer.db.transactions[id].stop.extraInactivityComputed) =>
         answer.db.transactions[id].stop.extraInactivitySecs =
           statusNotification.timestamp - transactions[id].stop.timestamp

\* ----------------------------------------------------------------------
\* end-of-charge detection
OptimalChargeNotified(db, transactionId) ==
  \E k \in 1..Len(db.notifications) :
    /\ db.notifications[k].kind = "OptimalChargeReached"
    /\ db.notifications[k].transactionId = transactionId

\* the transaction is open, has at least two energy meter values and a
\* consumption, is not full, its last intervals are not all zero and its
\* state of charge has reached the configured threshold
OptimalChargeCase(db, transactionId) ==
  /\ transactionId \in DOMAIN db.transactions
  /\ LET transaction == db.transactions[transactionId]
     IN /\ ~transaction.stop.set
        /\ transaction.numberOfMeterValues > 1
        /\ transaction.currentTotalConsumptionWh > 0
        /\ transaction.currentStateOfCharge # 100
        /\ ~LastConsumptionsAllZero(db, transaction)
        /\ transaction.currentStateOfCharge
             >= db.chargingStationConfig.notifBeforeEndOfChargePercent

\* C27: after MeterValues on an open transaction with at least two energy
\* meter values and a consumption, with both notifications enabled, a state of
\* charge below 100 that has reached the configured threshold while the last
\* three intervals are not all zero yields an optimal-charge-reached notification
C27_OptimalChargeNotifiedWithBothEnabled ==
  \A meterValues \in NotifyMeterValuesRequests :
    LET answer == handleMeterValues(Db, meterValues)
    IN (/\ getTransaction(Db, meterValues.transactionId) # 0
        /\ Db.chargingStationConfig.notifEndOfChargeEnabled
        /\ Db.chargingStationConfig.notifBeforeEndOfChargeEnabled
        /\ OptimalChargeCase(answer.db, meterValues.transactionId))
       => OptimalChargeNotified(answer.db, meterValues.transactionId)

\* with only the optimal-charge notification enabled the same case is notified
C27_OptimalChargeNotifiedWithEndOfChargeDisabled ==
  \A meterValues \in NotifyMeterValuesRequests :
    LET answer == handleMeterValues(Db, meterValues)
    IN (/\ getTransaction(Db, meterValues.transactionId) # 0
        /\ ~Db.chargingStationConfig.notifEndOfChargeEnabled
        /\ Db.chargingStationConfig.notifBeforeEndOfChargeEnabled
        /\ OptimalChargeCase(answer.db, meterValues.transactionId))
       => OptimalChargeNotified(answer.db, meterValues.transactionId)

NotificationKinds == {"EndOfCharge", "OptimalChargeReached"}

NotificationsOf(db, transactionId, kind) ==
  {k \in 1..Len(db.notifications) :
     /\ db.notifications[k].kind = kind
     /\ db.notifications[k].transactionId = transactionId}

\* the end-of-charge detection of the handler holds for the transaction
EndOfChargeCase(db, transactionId) ==
  /\ transactionId \in DOMAIN db.transactions
  /\ LET transaction == db.transactions[transactionId]
     IN /\ ~transaction.stop.set
        /\ transaction.numberOfMeterValues > 1
        /\ transaction.currentTotalConsumptionWh > 0
        /\ db.chargingStationConfig.notifEndOfChargeEnabled
        /\ \/ transaction.currentStateOfCharge = 100
           \/ LastConsumptionsAllZero(db, transaction)

BootStatuses == {"Accepted", "Rejected"}
IdTagInfoStatuses == {"Accepted", "Invalid"}

BootAnswered(bootNotifications_) ==
  \A headers \in BootHeaders, bootNotification \in bootNotifications_,
     template \in Templates, failure \in BootFailures :
    handleBootNotification(Db, headers, bootNotification, template, failure).status
      \in BootStatuses

OtherHandlersAnswered ==
  /\ \A authorize \in AuthorizeRequests :
       handleAuthorize(Db, authorize).status \in IdTagInfoStatuses
  /\ \A startTransaction \in StartTransactionRequests, authorized \in BOOLEAN :
       handleStartTransaction(Db, startTransaction, authorized).status \in IdTagInfoStatuses
  /\ \A stopTransaction \in EndStopTransactionRequests, authorized \in BOOLEAN :
       handleStopTransaction(Db, stopTransaction, FALSE, FALSE, authorized).status
         \in IdTagInfoStatuses
  /\ \A meterValues \in MeterValuesRequests :
       handleMeterValues(Db, meterValues).status = "{}"

\* C29: whatever the message and whatever fails in its handler, the handler
\* answers with a response of its kind (boot: Accepted or Rejected; authorize,
\* start and stop: Accepted or Invalid; meter values: the empty payload) and
\* does not throw
C29_EveryHandlerAnswers ==
  BootAnswered(BootNotificationRequests) /\ OtherHandlersAnswered

\* a boot whose payload has no timestamp property is answered whatever fails,
\* and so is every message of the other kinds
C29_AnsweredWithoutPayloadTimestamp ==
  /\ BootAnswered({b \in BootNotificationRequests : b.timestamp = "undefined"})
  /\ OtherHandlersAnswered

\* ----------------------------------------------------------------------
\* C30: stopOrDeleteActiveTransactions comes to an end from every storage,
\* whatever the deletes and the simulated stops do, also when a stop answers
\* Invalid and when several transactions are open on the connector
C30_CleanupTerminates == <>(handlers[1].pc = "done")

\* the loop was left on finding again the transaction whose simulated stop was
\* answered Invalid, with two transactions still open on the connector
C30_Witness ==
  /\ handlers[1].pc = "done"
  /\ handlers[1].response = "Invalid"
  /\ Cardinality(OpenOn(Db, 1)) >= 2
  /\ handlers[1].request.transactionId = getActiveTransaction(Db, 1)

\* ----------------------------------------------------------------------
\* the stop of the request was handled and wrote the stop block
StopRecorded(answer, transactionId) ==
  /\ transactionId \in DOMAIN transactions
  /\ ~transactions[transactionId].stop.set
  /\ answer.status = "Accepted"
  /\ answer.db.transactions[transactionId].stop.set

\* C31: the tag recorded in the stop block is the tag of the remote stop when
\* the central system issued one less than 60 seconds before the stop is
\* handled; otherwise the idTag of the StopTransaction when it has one;
\* otherwise the tag that started the transaction
C31_StopperTag ==
  \A stopTransaction \in TagStopTransactionRequests, authorized \in BOOLEAN :
    LET answer == handleStopTransaction(Db, stopTransaction, FALSE, FALSE, authorized)
        transaction == transactions[stopTransaction.transactionId]
    IN StopRecorded(answer, stopTransaction.transactionId) =>
         answer.db.transactions[stopTransaction.transactionId].stop.tagID =
           IF transaction.remotestop.set
              /\ now - transaction.remotestop.timestamp < 60
           THEN transaction.remotestop.tagID
           ELSE IF stopTransaction.idTag = StringTag("STOPPER") THEN "STOPPER"
           ELSE transaction.tagID

\* a stop that carries its own tag is recorded with the tag of the remote stop
\* issued 59 seconds before, and one second later with its own tag
C31_Witness ==
  /\ now = 0
  /\ 1 \in DOMAIN transactions
  /\ transactions[1].remotestop.set
  /\ transactions[1].remotestop.timestamp = 0 - 59
  /\ \E stopTransaction \in TagStopTransactionRequests :
       LET answer == handleStopTransaction(Db, stopTransaction, FALSE, FALSE, TRUE)
           later == handleStopTransaction([Db EXCEPT !.now = 1], stopTransaction,
                                          FALSE, FALSE, TRUE)
       IN /\ stopTransaction.idTag = StringTag("STOPPER")
          /\ StopRecorded(answer, 1)
          /\ answer.db.transactions[1].stop.tagID = "REMOTE"
          /\ StopRecorded(later, 1)
          /\ later.db.transactions[1].stop.tagID = "STOPPER"

\* ----------------------------------------------------------------------
\* the notification repeats the status, errorCode and info of the connector;
\* an info that the notification does not have repeats one the connector does
\* not have
RepeatsConnector(connector, statusNotification) ==
  /\ connector.status = statusNotification.status
  /\ connector.errorCode = statusNotification.errorCode
  /\ \/ connector.info = statusNotification.info
     \/ statusNotification.info = Undefined /\ connector.info \in {Undefined, ""}

\* C32: a StatusNotification that repeats the status, errorCode and info of a
\* known connector, info absent on both sides included, persists nothing: the
\* connectors, lastSeen, the transactions and the consumptions are unchanged
C32_RepeatedStatusPersistsNothing ==
  \A statusNotification \in AnyStatusNotificationRequests :
    LET k == getConnectorFromID(connectors, statusNotification.connectorId)
    IN (k # 0 /\ RepeatsConnector(connectors[k], statusNotification)) =>
         handleStatusNotification(Db, statusNotification).db = Db

\* a notification that carries an info text and repeats the connector persists
\* nothing
C32_RepeatedStatusWithInfoPersistsNothing ==
  \A statusNotification \in AnyStatusNotificationRequests :
    LET k == getConnectorFromID(connectors, statusNotification.connectorId)
    IN (/\ k # 0
        /\ statusNotification.info \notin {Undefined, ""}
        /\ RepeatsConnector(connectors[k], statusNotification)) =>
         handleStatusNotification(Db, statusNotification).db = Db

\* C33: the connectors of the station are in the order of their connectorId,
\* without duplicates, and the connector at index k (from 0) has connectorId
\* k + 1, in whatever order the station reports its connectors
C33_ConnectorIdIsIndex ==
  \A k \in 1..Len(connectors) : connectors[k].connectorId = k

\* the connectors are in the strict order of their connectorId
C33_ConnectorsSorted ==
  \A k \in 1..Len(connectors), l \in 1..Len(connectors) :
    k < l => connectors[k].connectorId < connectors[l].connectorId

\* ------------------------------------------- smart charging under its lock
\* triggerSmartCharging runs in handlers that interleave at every await; the
\* lock is the LockingManager's, held for SmartChargingLockSecs at most.
SmartChargingLockSecs == 30
SmartTickSecs == 10
MaxSmartNow == 60
SiteAreas == 1..2

NoLock == [name |-> <<>>, owner |-> 0, expirationDate |-> 0]

createSiteAreaSmartChargingLock(siteAreaID) == <<"smart-charging", siteAreaID>>

\* a lock of that name that is still within its hold
LockHeld(name, instant) ==
  \E lock \in locks : lock.name = name /\ instant < lock.expirationDate

\* the locks once the handler has taken the lock of that name: one past its
\* hold is replaced
LocksAcquired(name, h, instant, holdSecs) ==
  {lock \in locks : lock.name # name}
    \cup {[name |-> name, owner |-> h, expirationDate |-> instant + holdSecs]}

\* LockingManager.release(handle): the lock goes if it is still the handle's
release(lock) == locks \ {lock}

SmartIdle ==
  [pc |-> "idle", siteAreaID |-> 0, lock |-> NoLock, error |-> FALSE, computations |-> 0]

InitSmart ==
  /\ SetDb(EmptyDb)
  /\ handlers = [h \in Handlers |-> SmartIdle]
  /\ locks = {}

\* the component test and the site area test: without either nothing happens
SmartTrigger(h) ==
  /\ handlers[h].pc = "idle"
  /\ \E siteAreaID \in SiteAreas, componentActive \in BOOLEAN, smartCharging \in BOOLEAN :
       handlers' = [handlers EXCEPT
         ![h] = [SmartIdle EXCEPT
                   !.siteAreaID = siteAreaID,
                   !.pc = IF componentActive /\ smartCharging THEN "lock" ELSE "done"]]
  /\ UNCHANGED <<transactions, consumptions, connectors, lastTransactionID, cdrPushes,
                 locks, lastSeen, now, stationVars, restVars>>

\* tryCreateSiteAreaSmartChargingLock: no lock while one is held, and then the
\* trigger ends without a recomputation and without an error
SmartAcquireLock(h) ==
  /\ handlers[h].pc = "lock"
  /\ LET name == createSiteAreaSmartChargingLock(handlers[h].siteAreaID)
         held == LockHeld(name, now)
         acquired == LocksAcquired(name, h, now, SmartChargingLockSecs)
     IN /\ locks' = IF held THEN locks ELSE acquired
        /\ handlers' = [handlers EXCEPT
             ![h].lock = IF held THEN NoLock
                         ELSE [name |-> name, owner |-> h,
                               expirationDate |-> now + SmartChargingLockSecs],
             ![h].pc = IF held THEN "done" ELSE "impl"]
  /\ UNCHANGED <<transactions, consumptions, connectors, lastTransactionID, cdrPushes,
                 lastSeen, now, stationVars, restVars>>

\* getSmartChargingImpl, and the start of computeAndApplyChargingProfiles when
\* there is an implementation
SmartCompute(h) ==
  /\ handlers[h].pc = "impl"
  /\ \E smartCharging \in BOOLEAN :
       handlers' = [handlers EXCEPT
         ![h].pc = IF smartCharging THEN "computing" ELSE "release"]
  /\ UNCHANGED <<transactions, consumptions, connectors, lastTransactionID, cdrPushes,
                 locks, lastSeen, now, stationVars, restVars>>

\* computeAndApplyChargingProfiles returns or throws
SmartComputed(h) ==
  /\ handlers[h].pc = "computing"
  /\ \E thrown \in BOOLEAN :
       handlers' = [handlers EXCEPT
         ![h].computations = @ + 1,
         ![h].error = thrown,
         ![h].pc = "release"]
  /\ UNCHANGED <<transactions, consumptions, connectors, lastTransactionID, cdrPushes,
                 locks, lastSeen, now, stationVars, restVars>>

\* finally: LockingManager.release(siteAreaLock)
SmartReleaseLock(h) ==
  /\ handlers[h].pc = "release"
  /\ locks' = release(handlers[h].lock)
  /\ handlers' = [handlers EXCEPT ![h].pc = "done"]
  /\ UNCHANGED <<transactions, consumptions, connectors, lastTransactionID, cdrPushes,
                 lastSeen, now, stationVars, restVars>>

\* the handler is ready for the next event
SmartReturn(h) ==
  /\ handlers[h].pc = "done"
  /\ handlers' = [handlers EXCEPT ![h] = SmartIdle]
  /\ UNCHANGED <<transactions, consumptions, connectors, lastTransactionID, cdrPushes,
                 locks, lastSeen, now, stationVars, restVars>>

SmartTick ==
  /\ now + SmartTickSecs <= MaxSmartNow
  /\ now' = now + SmartTickSecs
  /\ UNCHANGED <<transactions, consumptions, connectors, lastTransactionID, cdrPushes,
                 handlers, locks, lastSeen, stationVars, restVars>>

NextSmart ==
  \/ \E h \in Handlers :
       \/ SmartTrigger(h)
       \/ SmartAcquireLock(h)
       \/ SmartCompute(h)
       \/ SmartComputed(h)
       \/ SmartReleaseLock(h)
       \/ SmartReturn(h)
  \/ SmartTick

SpecSmart == InitSmart /\ [][NextSmart]_vars

\* C34: at most one smart-charging recomputation of a site area runs at a
\* time; a trigger that gets no lock recomputes nothing and raises no error;
\* the lock is released after every recomputation, one that throws included
C34_OneRecomputationAtATime ==
  /\ \A h1 \in Handlers, h2 \in Handlers :
       (/\ h1 # h2
        /\ handlers[h1].pc = "computing"
        /\ handlers[h2].pc = "computing") =>
         handlers[h1].siteAreaID # handlers[h2].siteAreaID
  /\ \A h \in Handlers :
       (handlers[h].pc = "done" /\ handlers[h].lock = NoLock) =>
         (handlers[h].computations = 0 /\ ~handlers[h].error)
  /\ \A h \in Handlers :
       handlers[h].pc = "done" => handlers[h].lock \notin locks

\* recomputations of one site area overlap only when the first has outlasted
\* the hold of its lock
C34_OverlapOnlyPastTheHold ==
  \A h1 \in Handlers, h2 \in Handlers :
    (/\ h1 # h2
     /\ handlers[h1].pc = "computing"
     /\ handlers[h2].pc = "computing"
     /\ handlers[h1].siteAreaID = handlers[h2].siteAreaID) =>
       \/ handlers[h1].lock.expirationDate <= now
       \/ handlers[h2].lock.expirationDate <= now

\* a trigger without the lock recomputes nothing and raises nothing, and no
\* finished trigger leaves its lock behind
C34_SkipsSilentlyAndReleases ==
  /\ \A h \in Handlers :
       (handlers[h].pc = "done" /\ handlers[h].lock = NoLock) =>
         (handlers[h].computations = 0 /\ ~handlers[h].error)
  /\ \A h \in Handlers :
       handlers[h].pc = "done" => handlers[h].lock \notin locks

\* ------------------------------- tag import and billing synchronisation
\* Each request takes the named lock of its operation for the tenant, runs the
\* operation and releases the lock; the requests interleave at every await and
\* at every event of the upload stream.
MaxImportTags == 2
Operations == {"import-tags", "synchronize-users", "synchronize-invoices"}
BillingOperations == {"synchronize-users", "synchronize-invoices"}
FileKinds == {"csv", "json", "other"}

\* createImportTagsLock, createBillingSyncUsersLock, createBillingSyncInvoicesLock
createOperationLock(operation, tenantID) == <<operation, tenantID>>

SyncIdle ==
  [pc |-> "idle", operation |-> "none", file |-> "none", lock |-> NoLock,
   connectionClosed |-> FALSE, tags |-> 0, error |-> "none"]

InitSync ==
  /\ SetDb(EmptyDb)
  /\ handlers = [h \in Handlers |-> SyncIdle]
  /\ locks = {}

\* a request arrives, authorized for its operation
SyncRequest(h) ==
  /\ handlers[h].pc = "idle"
  /\ \E operation \in Operations, file \in FileKinds :
       handlers' = [handlers EXCEPT
         ![h] = [SyncIdle EXCEPT
                   !.operation = operation,
                   !.file = IF operation = "import-tags" THEN file ELSE "none",
                   !.pc = "lock"]]
  /\ UNCHANGED <<transactions, consumptions, connectors, lastTransactionID, cdrPushes,
                 locks, lastSeen, now, stationVars, restVars>>

\* the lock is asked for; without it the request fails and nothing has run
SyncAcquireLock(h) ==
  /\ handlers[h].pc = "lock"
  /\ LET name == createOperationLock(handlers[h].operation, 1)
         held == \E lock \in locks : lock.name = name
         mine == [name |-> name, owner |-> h, expirationDate |-> 0]
     IN /\ locks' = IF held THEN locks ELSE locks \cup {mine}
        /\ handlers' = [handlers EXCEPT
             ![h].lock = IF held THEN NoLock ELSE mine,
             ![h].error = IF held THEN "CannotAcquireLock" ELSE "none",
             ![h].pc = IF held THEN "done" ELSE "body"]
  /\ UNCHANGED <<transactions, consumptions, connectors, lastTransactionID, cdrPushes,
                 lastSeen, now, stationVars, restVars>>

\* billingImpl.synchronizeUsers / synchronizeInvoices returns or throws
BillingSynchronized(h) ==
  /\ handlers[h].pc = "body"
  /\ handlers[h].operation \in BillingOperations
  /\ \E thrown \in BOOLEAN :
       handlers' = [handlers EXCEPT
         ![h].error = IF thrown THEN "Thrown" ELSE "none",
         ![h].pc = "release"]
  /\ UNCHANGED <<transactions, consumptions, connectors, lastTransactionID, cdrPushes,
                 locks, lastSeen, now, stationVars, restVars>>

\* finally: LockingManager.release(billingLock)
BillingReleaseLock(h) ==
  /\ handlers[h].pc = "release"
  /\ locks' = release(handlers[h].lock)
  /\ handlers' = [handlers EXCEPT ![h].pc = "done"]
  /\ UNCHANGED <<transactions, consumptions, connectors, lastTransactionID, cdrPushes,
                 lastSeen, now, stationVars, restVars>>

\* req.socket.on('close'): the lock is released, whatever the stream is doing
ImportSocketClose(h) ==
  /\ handlers[h].pc = "body"
  /\ handlers[h].operation = "import-tags"
  /\ ~handlers[h].connectionClosed
  /\ locks' = release(handlers[h].lock)
  /\ handlers' = [handlers EXCEPT ![h].connectionClosed = TRUE]
  /\ UNCHANGED <<transactions, consumptions, connectors, lastTransactionID, cdrPushes,
                 lastSeen, now, stationVars, restVars>>

\* a file that is neither CSV nor JSON: release, log, INVALID_FILE_FORMAT
ImportInvalidFile(h) ==
  /\ handlers[h].pc = "body"
  /\ handlers[h].operation = "import-tags"
  /\ handlers[h].file = "other"
  /\ locks' = release(handlers[h].lock)
  /\ handlers' = [handlers EXCEPT ![h].error = "InvalidFileFormat", ![h].pc = "done"]
  /\ UNCHANGED <<transactions, consumptions, connectors, lastTransactionID, cdrPushes,
                 lastSeen, now, stationVars, restVars>>

\* a tag of the stream: the CSV subscriber throws once the connection is
\* closed, and the error callback releases the lock; otherwise the tag is
\* processed and inserted
ImportTag(h) ==
  /\ handlers[h].pc = "body"
  /\ handlers[h].operation = "import-tags"
  /\ handlers[h].file \in {"csv", "json"}
  /\ handlers[h].tags < MaxImportTags
  /\ LET closed == handlers[h].file = "csv" /\ handlers[h].connectionClosed
     IN /\ locks' = IF closed THEN release(handlers[h].lock) ELSE locks
        /\ handlers' = [handlers EXCEPT
             ![h].tags = IF closed THEN @ ELSE @ + 1,
             ![h].error = IF closed THEN "InvalidFileFormat" ELSE "none",
             ![h].pc = IF closed THEN "done" ELSE "body"]
  /\ UNCHANGED <<transactions, consumptions, connectors, lastTransactionID, cdrPushes,
                 lastSeen, now, stationVars, restVars>>

\* the CSV stream is completed: the last batch is inserted, the lock released
ImportCompleted(h) ==
  /\ handlers[h].pc = "body"
  /\ handlers[h].operation = "import-tags"
  /\ handlers[h].file = "csv"
  /\ locks' = release(handlers[h].lock)
  /\ handlers' = [handlers EXCEPT ![h].connectionClosed = TRUE, ![h].pc = "done"]
  /\ UNCHANGED <<transactions, consumptions, connectors, lastTransactionID, cdrPushes,
                 lastSeen, now, stationVars, restVars>>

\* the JSON parser reports an error: release, log, INVALID_FILE_FORMAT
ImportJsonError(h) ==
  /\ handlers[h].pc = "body"
  /\ handlers[h].operation = "import-tags"
  /\ handlers[h].file = "json"
  /\ locks' = release(handlers[h].lock)
  /\ handlers' = [handlers EXCEPT ![h].error = "InvalidFileFormat", ![h].pc = "done"]
  /\ UNCHANGED <<transactions, consumptions, connectors, lastTransactionID, cdrPushes,
                 lastSeen, now, stationVars, restVars>>

\* the request is answered; the handler is ready for the next one
SyncReturn(h) ==
  /\ handlers[h].pc = "done"
  /\ handlers' = [handlers EXCEPT ![h] = SyncIdle]
  /\ UNCHANGED <<transactions, consumptions, connectors, lastTransactionID, cdrPushes,
                 locks, lastSeen, now, stationVars, restVars>>

NextSync ==
  \E h \in Handlers :
    \/ SyncRequest(h)
    \/ SyncAcquireLock(h)
    \/ BillingSynchronized(h)
    \/ BillingReleaseLock(h)
    \/ ImportSocketClose(h)
    \/ ImportInvalidFile(h)
    \/ ImportTag(h)
    \/ ImportCompleted(h)
    \/ ImportJsonError(h)
    \/ SyncReturn(h)

SpecSync == InitSync /\ [][NextSync]_vars

\* the operation of the request is running
InBody(h) == handlers[h].pc \in {"body", "release"}

\* in the operations given: the body runs under the request's own lock only,
\* no two requests run the same operation, and a request refused the lock
\* fails with the cannot-acquire-lock error and has run nothing
SerializedUnderLock(operations) ==
  /\ \A h \in Handlers :
       (InBody(h) /\ handlers[h].operation \in operations) =>
         handlers[h].lock \in locks
  /\ \A h1 \in Handlers, h2 \in Handlers :
       (/\ h1 # h2
        /\ InBody(h1)
        /\ InBody(h2)
        /\ handlers[h1].operation \in operations) =>
         handlers[h1].operation # handlers[h2].operation
  /\ \A h \in Handlers :
       (/\ handlers[h].pc = "done"
        /\ handlers[h].operation \in operations
        /\ handlers[h].lock = NoLock) =>
         (handlers[h].error = "CannotAcquireLock" /\ handlers[h].tags = 0)

\* C35: tag import, billing user synchronisation and invoice synchronisation
\* each run in one request at a time per tenant, only while the request holds
\* the operation's lock; a request that gets no lock fails with the
\* cannot-acquire-lock error and runs nothing
C35_SerializedUnderLock == SerializedUnderLock(Operations)

\* the two billing synchronisations are serialized under their locks
C35_BillingSerializedUnderLock == SerializedUnderLock(BillingOperations)

\* two tag imports of a tenant run at once
C35_NoTwoImports ==
  ~(/\ InBody(1) /\ handlers[1].operation = "import-tags"
    /\ InBody(2) /\ handlers[2].operation = "import-tags")

\* ---------------------------------------- the deferred step after a boot
\* An accepted BootNotification leaves a timer; its callback asks the station
\* to change its configuration and logs what failed.
ConfigurationStatuses == {"Accepted", "Rejected", "NotSupported"}

HeartbeatError == "Cannot set heartbeat interval OCPP Parameter"
OcppParametersError == "Cannot request and save OCPP Parameters"

\* the callback of setTimeout: the errors it logs, given the answers of the
\* station to the two changes, whether the template updated OCPP parameters,
\* and the outcome of applying them
deferredConfiguration(heartBeatInterval, heartbeatInterval, ocppUpdated, templateParameters) ==
  LET heartBeatIntervalSettingFailure == heartBeatInterval # "Accepted"
      heartbeatIntervalSettingFailure == heartbeatInterval # "Accepted"
      result == IF ocppUpdated THEN templateParameters ELSE heartbeatInterval
  IN (IF heartBeatIntervalSettingFailure /\ heartbeatIntervalSettingFailure
      THEN <<HeartbeatError>> ELSE <<>>)
     \o (IF result # "Accepted" THEN <<OcppParametersError>> ELSE <<>>)

NoTimer ==
  [pc |-> "idle", ocppUpdated |-> FALSE, heartBeatInterval |-> "none",
   heartbeatInterval |-> "none", errors |-> <<>>]

DeferredBootNotificationRequests ==
  {r \in BootNotificationRequests :
     r.chargePointSerialNumber = "SN-1" /\ r.timestamp = "undefined"}

DeferredBootHeaders == {h \in BootHeaders : h.token \in {"TOKEN-VALID", "TOKEN-REVOKED"}}

InitDeferred ==
  /\ \E station \in {NoChargingStation, RegisteredChargingStation} :
       SetDb([EmptyDb EXCEPT !.chargingStation = station])
  /\ handlers = [h \in Handlers |-> NoTimer]
  /\ locks = {}

\* handleBootNotification; an accepted boot sets the timer
BootNotificationDeferred(h) ==
  \E headers \in DeferredBootHeaders, bootNotification \in DeferredBootNotificationRequests,
     template \in Templates, ocppUpdated \in BOOLEAN :
    LET answer == handleBootNotification(Db, headers, bootNotification, template, "none")
    IN /\ handlers[h].pc = "idle"
       /\ Len(bootNotifications) < MaxBoots
       /\ template = "none" => ~ocppUpdated
       /\ SetDbNext(answer.db)
       /\ handlers' = [handlers EXCEPT
            ![h] = IF answer.status = "Accepted"
                   THEN [NoTimer EXCEPT !.pc = "timer", !.ocppUpdated = ocppUpdated]
                   ELSE NoTimer]
       /\ UNCHANGED locks

\* the callback runs: nothing of the station is written
DeferredConfiguration(h) ==
  /\ handlers[h].pc = "timer"
  /\ \E heartBeatInterval \in ConfigurationStatuses,
        heartbeatInterval \in ConfigurationStatuses,
        templateParameters \in ConfigurationStatuses :
       handlers' = [handlers EXCEPT
         ![h].pc = "done",
         ![h].heartBeatInterval = heartBeatInterval,
         ![h].heartbeatInterval = heartbeatInterval,
         ![h].errors = deferredConfiguration(heartBeatInterval, heartbeatInterval,
                                             handlers[h].ocppUpdated, templateParameters)]
  /\ UNCHANGED <<transactions, consumptions, connectors, lastTransactionID, cdrPushes,
                 locks, lastSeen, now, stationVars, restVars>>

NextDeferred ==
  \/ \E h \in Handlers :
       \/ BootNotificationDeferred(h)
       \/ DeferredConfiguration(h)
  \/ Tick

SpecDeferred == InitDeferred /\ [][NextDeferred]_vars

\* C36: in the deferred step after a boot, when one of the two changes of the
\* heartbeat interval is Accepted and the template updated no OCPP parameter,
\* no error is logged; whatever the outcome the station stays registered as
\* Accepted
C36_NoErrorWhenEitherAccepted ==
  \A h \in Handlers :
    handlers[h].pc = "done" =>
      /\ chargingStation.registrationStatus = "Accepted"
      /\ (/\ "Accepted" \in {handlers[h].heartBeatInterval, handlers[h].heartbeatInterval}
          /\ ~handlers[h].ocppUpdated) =>
           handlers[h].errors = <<>>

\* the error of the heartbeat interval is logged only when both changes
\* failed, and the station stays registered as Accepted
C36_HeartbeatErrorOnlyWhenBothFail ==
  \A h \in Handlers :
    handlers[h].pc = "done" =>
      /\ chargingStation.registrationStatus = "Accepted"
      /\ "Accepted" \in {handlers[h].heartBeatInterval, handlers[h].heartbeatInterval} =>
           \A i \in DOMAIN handlers[h].errors : handlers[h].errors[i] # HeartbeatError

\* without an update by the template no error is logged when the second
\* change, of 'HeartbeatInterval', is Accepted
C36_NoErrorWhenSecondAccepted ==
  \A h \in Handlers :
    (/\ handlers[h].pc = "done"
     /\ handlers[h].heartbeatInterval = "Accepted"
     /\ ~handlers[h].ocppUpdated) =>
      handlers[h].errors = <<>>

\* ------------------------------------ a StopTransaction whose awaits fail
\* what throws once the connector was freed and the station saved: the
\* consumption builder, the saving of a consumption, the saving of the
\* transaction
StopFailures == {"none", "createConsumptions", "saveConsumption", "saveTransaction"}

\* the catch block answers Invalid with what was saved before the throw
StopOpenTransactionCatch(db, transaction, stopTransaction, isSoftStop, failure) ==
  LET db1 == setLastSeen(saveChargingStation(db,
               checkAndFreeChargingStationConnector(db.connectors, transaction.connectorId)))
      stop == IF isSoftStop
              THEN [stopTransaction EXCEPT !.meterStop = transaction.lastConsumption.value]
              ELSE stopTransaction
      built == createConsumptionsFromMeterValues(transaction,
                 createTransactionStopMeterValues(transaction, stop))
      db2 == saveConsumptions(db1, transaction.id, built.consumptions)
  IN IF failure = "createConsumptions"
     THEN Answer(db1, "Invalid", 0, "Thrown")
     ELSE IF failure = "saveConsumption" /\ built.consumptions # <<>>
     THEN Answer(db1, "Invalid", 0, "Thrown")
     ELSE IF failure = "saveTransaction"
     THEN Answer(db2, "Invalid", 0, "Thrown")
     ELSE StopOpenTransaction(db, transaction, stopTransaction, isSoftStop)

\* handleStopTransaction with its catch block
handleStopTransactionCatch(db, stopTransaction, isSoftStop, stoppedByCentralSystem, authorized, failure) ==
  LET answer == handleStopTransaction(db, stopTransaction, isSoftStop,
                                      stoppedByCentralSystem, authorized)
  IN IF answer.status = "Accepted" /\ stopTransaction.transactionId # 0
     THEN StopOpenTransactionCatch(db, db.transactions[stopTransaction.transactionId],
                                   stopTransaction, isSoftStop, failure)
     ELSE answer

InitStopCatch ==
  /\ \E db \in StopRaceDbs : SetDb(db)
  /\ handlers = [h \in Handlers |-> IdleHandler]
  /\ locks = {}

\* the station sends the stop again after an Invalid answer, and that one
\* goes through
StopTransactionCatch ==
  \E stopTransaction \in StopTransactionRequests, authorized \in BOOLEAN,
     failure \in StopFailures :
    /\ failure # "none" =>
         \E k \in DOMAIN connectors :
           connectors[k].currentTransactionID = stopTransaction.transactionId
    /\ Commit(handleStopTransactionCatch(Db, stopTransaction, FALSE, FALSE, authorized, failure))

NextStopCatch ==
  \/ StopTransactionCatch
  \/ Tick

SpecStopCatch == InitStopCatch /\ [][NextStopCatch]_vars

\* the live fields of the connectors
LiveFields(conns) ==
  [k \in DOMAIN conns |->
     <<conns[k].currentTransactionID, conns[k].currentTagID,
       conns[k].currentTotalConsumptionWh>>]

\* the stop of an open transaction, answered Invalid with that failure, has
\* changed neither the transaction nor the live fields of the connectors
InvalidStopChangesNothing(authorized, failures) ==
  \A stopTransaction \in StopTransactionRequests, failure \in failures :
    LET answer == handleStopTransactionCatch(Db, stopTransaction, FALSE, FALSE,
                                             authorized, failure)
    IN (answer.status = "Invalid" /\ IsOpen(stopTransaction.transactionId)) =>
         /\ answer.db.transactions = transactions
         /\ LiveFields(answer.db.connectors) = LiveFields(connectors)

\* C37: a StopTransaction answered Invalid for an open transaction, because
\* the stop is not authorized or because building or saving the closing
\* consumptions or the transaction failed, has changed neither the
\* transaction nor the live fields of the connector
C37_InvalidStopChangesNothing ==
  /\ InvalidStopChangesNothing(FALSE, StopFailures)
  /\ InvalidStopChangesNothing(TRUE, StopFailures)

\* a stop that is not authorized changes nothing
C37_UnauthorizedStopChangesNothing ==
  InvalidStopChangesNothing(FALSE, StopFailures)

\* the open transaction is left as it was by every stop answered Invalid
C37_InvalidStopLeavesTransaction ==
  \A stopTransaction \in StopTransactionRequests, failure \in StopFailures,
     authorized \in BOOLEAN :
    LET answer == handleStopTransactionCatch(Db, stopTransaction, FALSE, FALSE,
                                             authorized, failure)
    IN (answer.status = "Invalid" /\ IsOpen(stopTransaction.transactionId)) =>
         answer.db.transactions = transactions

\* C38: in every saved state, a connector whose currentTransactionID is not 0
\* holds a transaction that exists, has no stop block and is of that
\* connector, after any sequence of StartTransaction, MeterValues,
\* StopTransaction and StatusNotification
\* no handler is between its first read and its answer
BetweenHandlers == \A h \in Handlers : handlers[h].pc \in {"idle", "done"}

C38_ConnectorHoldsOpenTransaction ==
  BetweenHandlers =>
    \A k \in DOMAIN connectors :
      connectors[k].currentTransactionID # 0 =>
        /\ connectors[k].currentTransactionID \in DOMAIN transactions
        /\ ~transactions[connectors[k].currentTransactionID].stop.set
        /\ transactions[connectors[k].currentTransactionID].connectorId
             = connectors[k].connectorId

\* the transaction a connector holds exists and has no stop block
C38_ConnectorHoldsExistingOpenTransaction ==
  BetweenHandlers =>
    \A k \in DOMAIN connectors :
      connectors[k].currentTransactionID # 0 =>
        /\ connectors[k].currentTransactionID \in DOMAIN transactions
        /\ ~transactions[connectors[k].currentTransactionID].stop.set

\* ------------------------------------------------- the database migration
\* Each server runs MigrationHandler.migrate when it starts, and the run of the
\* asynchronous tasks after it; the servers interleave at every await.
MigrationVersion == "1.0"

MigrationTask(name, asynchronous) ==
  [name |-> name, version |-> MigrationVersion, asynchronous |-> asynchronous]

\* currentMigrationTasks, in the order of the pushes: a task before
\* AddSiteAreaLimitToConsumptionsTask, that task, the task after it, and that
\* task once more
MigrationTaskLists ==
  {<<MigrationTask("UpdateConsumptionsToObjectIDsTask", FALSE),
     MigrationTask("AddSiteAreaLimitToConsumptionsTask", asynchronous),
     MigrationTask("MigrateOcpiTransactionsTask", TRUE),
     MigrationTask("AddSiteAreaLimitToConsumptionsTask", asynchronous)>> :
     asynchronous \in BOOLEAN}

TaskOutcomes == {"migrated", "migrate throws", "saveMigration throws"}

MigrationLock == [name |-> <<"database", "migration">>, owner |-> 0, expirationDate |-> 0]

NoRun ==
  [pc |-> "idle", processAsyncTasksOnly |-> FALSE, currentMigrationTasks |-> <<>>,
   migrationTasksDone |-> {}, index |-> 0, lock |-> NoLock]

InitMigrate ==
  /\ SetDb(EmptyDb)
  /\ \E tasks \in MigrationTaskLists :
       handlers = [h \in Handlers |-> [NoRun EXCEPT !.currentMigrationTasks = tasks]]
  /\ locks = {}

\* LockingManager.acquire(migrationLock): without the lock the run does nothing
MigrateAcquireLock(h) ==
  /\ handlers[h].pc = "idle"
  /\ LET held == \E lock \in locks : lock.name = MigrationLock.name
         mine == [MigrationLock EXCEPT !.owner = h]
     IN /\ locks' = IF held THEN locks ELSE locks \cup {mine}
        /\ handlers' = [handlers EXCEPT
             ![h].lock = IF held THEN NoLock ELSE mine,
             ![h].pc = IF held THEN "schedule" ELSE "getMigrations"]
  /\ UNCHANGED <<transactions, consumptions, connectors, lastTransactionID, cdrPushes,
                 lastSeen, now, stationVars, restVars>>

\* MigrationStorage.getMigrations(), read once before the loop
MigrateGetMigrations(h) ==
  /\ handlers[h].pc = "getMigrations"
  /\ handlers' = [handlers EXCEPT
       ![h].migrationTasksDone = migrations, ![h].index = 1, ![h].pc = "tasks"]
  /\ UNCHANGED <<transactions, consumptions, connectors, lastTransactionID, cdrPushes,
                 locks, lastSeen, now, stationVars, restVars>>

\* the task is in the list read before the loop
migrationTaskDone(migrationTasksDone, currentMigrationTask) ==
  \E migrationTask \in migrationTasksDone :
    /\ currentMigrationTask.name = migrationTask.name
    /\ currentMigrationTask.version = migrationTask.version

\* the task is not done and is of the kind of the run
migrationTaskToRun(migrationTasksDone, currentMigrationTask, processAsyncTasksOnly) ==
  /\ ~migrationTaskDone(migrationTasksDone, currentMigrationTask)
  /\ currentMigrationTask.asynchronous = processAsyncTasksOnly

\* one turn of the loop: executeTask runs the task and records it; a throw of
\* the task or of saveMigration is logged and the loop goes on
MigrateExecuteTask(h) ==
  /\ handlers[h].pc = "tasks"
  /\ handlers[h].index <= Len(handlers[h].currentMigrationTasks)
  /\ LET currentMigrationTask == handlers[h].currentMigrationTasks[handlers[h].index]
         run == migrationTaskToRun(handlers[h].migrationTasksDone, currentMigrationTask,
                                   handlers[h].processAsyncTasksOnly)
     IN \E outcome \in TaskOutcomes :
          /\ ~run => outcome = "migrated"
          /\ executions' =
               IF run /\ outcome # "migrate throws"
               THEN Append(executions,
                      [name |-> currentMigrationTask.name,
                       version |-> currentMigrationTask.version,
                       server |-> h,
                       asynchronous |-> handlers[h].processAsyncTasksOnly,
                       saved |-> outcome = "migrated"])
               ELSE executions
          /\ migrations' =
               IF run /\ outcome = "migrated"
               THEN migrations \cup {[name |-> currentMigrationTask.name,
                                      version |-> currentMigrationTask.version]}
               ELSE migrations
  /\ handlers' = [handlers EXCEPT ![h].index = @ + 1]
  /\ UNCHANGED <<transactions, consumptions, connectors, lastTransactionID, cdrPushes,
                 locks, lastSeen, now, stationVars, users>>

\* finally: LockingManager.release(migrationLock)
MigrateReleaseLock(h) ==
  /\ handlers[h].pc = "tasks"
  /\ handlers[h].index > Len(handlers[h].currentMigrationTasks)
  /\ locks' = release(handlers[h].lock)
  /\ handlers' = [handlers EXCEPT ![h].pc = "schedule"]
  /\ UNCHANGED <<transactions, consumptions, connectors, lastTransactionID, cdrPushes,
                 lastSeen, now, stationVars, restVars>>

\* setTimeout: the synchronous run is followed by migrate(true)
MigrateSchedule(h) ==
  /\ handlers[h].pc = "schedule"
  /\ handlers' = [handlers EXCEPT
       ![h] = IF handlers[h].processAsyncTasksOnly
              THEN [handlers[h] EXCEPT !.pc = "done"]
              ELSE [NoRun EXCEPT
                      !.currentMigrationTasks = handlers[h].currentMigrationTasks,
                      !.processAsyncTasksOnly = TRUE]]
  /\ UNCHANGED <<transactions, consumptions, connectors, lastTransactionID, cdrPushes,
                 locks, lastSeen, now, stationVars, restVars>>

NextMigrate ==
  \E h \in Handlers :
    \/ MigrateAcquireLock(h)
    \/ MigrateGetMigrations(h)
    \/ MigrateExecuteTask(h)
    \/ MigrateReleaseLock(h)
    \/ MigrateSchedule(h)

SpecMigrate == InitMigrate /\ [][NextMigrate]_vars

\* the run of the server is between its acquire and its release
Migrating(h) == handlers[h].pc \in {"getMigrations", "tasks"}

\* tasks are executed under the migration lock only, by one server at a time
MigrationUnderLock ==
  /\ \A h \in Handlers : Migrating(h) => handlers[h].lock \in locks
  /\ ~(Migrating(1) /\ Migrating(2))

\* C39: migrate executes tasks only while it holds the 'migration' lock, and
\* a task (name, version) that has completed is never executed again, neither
\* later in the same run nor in a later run
C39_TaskExecutedOnce ==
  /\ MigrationUnderLock
  /\ ~\E i \in DOMAIN executions, j \in DOMAIN executions :
        /\ i < j
        /\ executions[i].saved
        /\ executions[i].name = executions[j].name
        /\ executions[i].version = executions[j].version

\* tasks run under the lock, and a task that is executed again after it has
\* completed is executed in the run in which it completed
C39_ExecutedAgainInTheSameRunOnly ==
  /\ MigrationUnderLock
  /\ \A i \in DOMAIN executions, j \in DOMAIN executions :
       (/\ i < j
        /\ executions[i].saved
        /\ executions[i].name = executions[j].name
        /\ executions[i].version = executions[j].version) =>
         /\ executions[i].server = executions[j].server
         /\ executions[i].asynchronous = executions[j].asynchronous

\* ------------------------------------------------------------- the log in
\* One user account; log in requests are handled concurrently and interleave
\* at the awaits of handleLogIn.
PasswordWrongNumberOfTrial == 2
PasswordBlockedWaitTime == 2
MaxLoginNow == 4

ActiveUser ==
  [status |-> "ACTIVE", passwordWrongNbrTrials |-> 0, passwordBlockedUntil |-> NoDate]

\* the branch handleLogIn takes for the user it has read
LogInBranch(user, instant) ==
  IF user.passwordWrongNbrTrials >= PasswordWrongNumberOfTrial
  THEN IF user.status = "LOCKED"
       THEN IF user.passwordBlockedUntil # NoDate /\ user.passwordBlockedUntil < instant
            THEN "unlock"
            ELSE "locked"
       ELSE "reinit"
  ELSE "check"

LogInAnswer(user, response) == [user |-> user, response |-> response]

\* saveUserStatus(ACTIVE) and saveUserPassword of the unlocked user
unlockUser(stored) ==
  [stored EXCEPT !.status = "ACTIVE", !.passwordWrongNbrTrials = 0,
                 !.passwordBlockedUntil = NoDate]

\* the wrong trials are counted but the account is never locked
userLoginWrongPassword_NeverLocked(stored, user, instant) ==
  LogInAnswer([stored EXCEPT !.passwordWrongNbrTrials = user.passwordWrongNbrTrials + 1],
              "WrongPassword")

\* the stored user after a wrong password, counted from the user object of
\* the handler
userLoginWrongPassword(stored, user, instant) ==
  LET passwordWrongNbrTrials == user.passwordWrongNbrTrials + 1
  IN IF passwordWrongNbrTrials >= PasswordWrongNumberOfTrial
     THEN LogInAnswer([stored EXCEPT
                         !.status = "LOCKED",
                         !.passwordWrongNbrTrials = passwordWrongNbrTrials,
                         !.passwordBlockedUntil = instant + PasswordBlockedWaitTime],
                      "Locked")
     ELSE LogInAnswer([stored EXCEPT !.passwordWrongNbrTrials = passwordWrongNbrTrials],
                      "WrongPassword")

userLoginSucceeded(stored, user) ==
  LogInAnswer([stored EXCEPT !.passwordWrongNbrTrials = 0,
                             !.passwordBlockedUntil = NoDate],
              "Token")

\* checkUserLogin on the user object of the handler; the saves go to the
\* stored user
checkUserLogin(stored, user, match, instant) ==
  IF match
  THEN IF user.status = "LOCKED"
       THEN LogInAnswer(stored, "Locked")
       ELSE userLoginSucceeded(stored, user)
  ELSE userLoginWrongPassword(stored, user, instant)

\* handleLogIn with nothing between its awaits
handleLogIn(stored, match, instant) ==
  LET branch == LogInBranch(stored, instant)
  IN IF branch = "locked"
     THEN LogInAnswer(stored, "Locked")
     ELSE IF branch = "unlock"
     THEN checkUserLogin(unlockUser(stored), unlockUser(stored), match, instant)
     ELSE IF branch = "reinit"
     THEN checkUserLogin(stored,
                         [stored EXCEPT !.passwordWrongNbrTrials = 0,
                                        !.passwordBlockedUntil = NoDate],
                         match, instant)
     ELSE checkUserLogin(stored, stored, match, instant)

NoLogIn ==
  [pc |-> "idle", user |-> ActiveUser, match |-> FALSE, response |-> "none",
   lockedAtAnswer |-> FALSE]

InitLogin ==
  /\ transactions = <<>>
  /\ consumptions = <<>>
  /\ connectors = <<>>
  /\ lastTransactionID = 0
  /\ cdrPushes = <<>>
  /\ handlers = [h \in Handlers |-> NoLogIn]
  /\ locks = {}
  /\ lastSeen = 0
  /\ now = 0
  /\ chargingStation = RegisteredChargingStation
  /\ bootNotifications = <<>>
  /\ notifications = <<>>
  /\ chargingStationConfig = NoNotificationConfig
  /\ users = <<ActiveUser>>
  /\ migrations = {}
  /\ executions = <<>>

\* getUserByEmail and the tests on the user read
LoginGetUser(h) ==
  /\ handlers[h].pc = "idle"
  /\ \E match \in BOOLEAN :
       LET branch == LogInBranch(users[1], now)
       IN handlers' = [handlers EXCEPT
            ![h] = [NoLogIn EXCEPT
                      !.match = match,
                      !.user = IF branch = "reinit"
                               THEN [users[1] EXCEPT !.passwordWrongNbrTrials = 0,
                                                     !.passwordBlockedUntil = NoDate]
                               ELSE users[1],
                      !.response = IF branch = "locked" THEN "Locked" ELSE "none",
                      !.lockedAtAnswer = FALSE,
                      !.pc = IF branch = "locked" THEN "done"
                             ELSE IF branch = "unlock" THEN "unlock" ELSE "check"]]
  /\ UNCHANGED <<transactions, consumptions, connectors, lastTransactionID, cdrPushes,
                 locks, lastSeen, now, stationVars, restVars>>

\* the user is unlocked and read again
LoginUnlock(h) ==
  /\ handlers[h].pc = "unlock"
  /\ users' = <<unlockUser(users[1])>>
  /\ handlers' = [handlers EXCEPT ![h].user = unlockUser(users[1]), ![h].pc = "check"]
  /\ UNCHANGED <<transactions, consumptions, connectors, lastTransactionID, cdrPushes,
                 locks, lastSeen, now, stationVars, migrations, executions>>

\* checkUserLogin: the password is compared, the user saved, the request answered
LoginCheck(h) ==
  /\ handlers[h].pc = "check"
  /\ LET answer == checkUserLogin(users[1], handlers[h].user, handlers[h].match, now)
     IN /\ users' = <<answer.user>>
        /\ handlers' = [handlers EXCEPT
             ![h].response = answer.response,
             ![h].lockedAtAnswer = users[1].status = "LOCKED",
             ![h].pc = "done"]
  /\ UNCHANGED <<transactions, consumptions, connectors, lastTransactionID, cdrPushes,
                 locks, lastSeen, now, stationVars, migrations, executions>>

LoginReturn(h) ==
  /\ handlers[h].pc = "done"
  /\ handlers' = [handlers EXCEPT ![h] = NoLogIn]
  /\ UNCHANGED <<transactions, consumptions, connectors, lastTransactionID, cdrPushes,
                 locks, lastSeen, now, stationVars, restVars>>

LoginTick ==
  /\ now < MaxLoginNow
  /\ now' = now + 1
  /\ UNCHANGED <<transactions, consumptions, connectors, lastTransactionID, cdrPushes,
                 handlers, locks, lastSeen, stationVars, restVars>>

NextLogin ==
  \/ \E h \in Handlers :
       \/ LoginGetUser(h)
       \/ LoginUnlock(h)
       \/ LoginCheck(h)
       \/ LoginReturn(h)
  \/ LoginTick

SpecLogin == InitLogin /\ [][NextLogin]_vars

\* the requests are handled one after the other
NextLoginInTurn ==
  \/ \E h \in Handlers :
       /\ \A other \in Handlers \ {h} : handlers[other].pc \in {"idle", "done"}
       /\ \/ LoginGetUser(h)
          \/ LoginUnlock(h)
          \/ LoginCheck(h)
          \/ LoginReturn(h)
  \/ LoginTick

SpecLoginInTurn == InitLogin /\ [][NextLoginInTurn]_vars

\* the user is locked out and the time of the lock has not passed
LockedOut(user, instant) ==
  /\ user.status = "LOCKED"
  /\ user.passwordWrongNbrTrials >= PasswordWrongNumberOfTrial
  /\ user.passwordBlockedUntil # NoDate
  /\ instant <= user.passwordBlockedUntil

\* while the user is locked out every log in fails with account-locked, the
\* right password included, and leaves the user as stored
C40_LockedOutFails ==
  LockedOut(users[1], now) =>
    \A match \in BOOLEAN :
      handleLogIn(users[1], match, now) = LogInAnswer(users[1], "Locked")

\* no request is answered with a token while the stored user is LOCKED
C40_NoTokenWhileLocked ==
  \A h \in Handlers :
    (handlers[h].pc = "done" /\ handlers[h].response = "Token") =>
      ~handlers[h].lockedAtAnswer

\* a LOCKED user is locked for a time: once no request is in progress, the log
\* in with the right password after passwordBlockedUntil makes the user
\* ACTIVE with no wrong trial, and succeeds
C40_UnlockedAfterTheTime ==
  (BetweenHandlers /\ users[1].status = "LOCKED") =>
    /\ users[1].passwordBlockedUntil # NoDate
    /\ LET later == handleLogIn(users[1], TRUE, users[1].passwordBlockedUntil + 1)
       IN /\ later.response = "Token"
          /\ later.user = ActiveUser

\* a successful log in leaves no wrong trial
C40_SuccessResetsTrials ==
  \A match \in BOOLEAN :
    LET answer == handleLogIn(users[1], match, now)
    IN answer.response = "Token" => answer.user.passwordWrongNbrTrials = 0

\* C40: a user with passwordWrongNumberOfTrial wrong log ins in a row is
\* LOCKED and every log in, the right password included, fails with
\* account-locked until passwordBlockedUntil has passed; the first log in
\* after that time makes the user ACTIVE with no wrong trial before the
\* password is checked; a successful log in leaves no wrong trial
C40_LockedUntilTheTimeHasPassed ==
  /\ C40_LockedOutFails
  /\ C40_NoTokenWhileLocked
  /\ C40_UnlockedAfterTheTime
  /\ C40_SuccessResetsTrials

====
